---- MODULE Spec2Model ----
(***************************************************************************)
(* Model of the translation orchestration of the chinese-translator app.   *)
(*                                                                         *)
(* Spec     : one GeminiProvider.translate() request                       *)
(*            (src/providers/gemini-provider.js): the ordered model        *)
(*            catalog, the timeout race, the retry loop with backoff, for  *)
(*            the request the app makes: an image and a stream callback.   *)
(* SpecStream : the same request for every kind of input, with or without  *)
(*            a stream callback, and the chunks of a streamed call.        *)
(* SpecLive : the PDF live-translation session of ChineseTranslatorApp     *)
(*            (src/app.js): toggle, debounce timer, pdfLiveTranslate, and  *)
(*            next to it the manual translation with its credit check and  *)
(*            the word-pair request that follows a translation.            *)
(* SpecCamera : the camera live session of CameraTranslator                *)
(*            (src/unnamed/part_003): start, stop, the translation loop,   *)
(*            the manual trigger.                                          *)
(* SpecFair : Spec under the scheduling of the event loop.                 *)
(* SpecHybrid : one translate() request of the hybrid provider             *)
(*            (src/unnamed/part_005): the custom provider, then Gemini.    *)
(* SpecCredits : the calls of CreditService.useCredit()                    *)
(*            (src/unnamed/part_004) of a guest or a logged-in user.       *)
(* SpecDocs : the tabs of the DocumentManager (src/document-manager.js).   *)
(*                                                                         *)
(* JavaScript runs handlers to completion on one thread; an action is one  *)
(* macrotask (a timer callback, a network completion, a UI event) together *)
(* with the promise reactions it triggers.  A backend call is one          *)
(* generateContent (a vision payload, or no stream callback) or one        *)
(* generateContentStream of _generateWithRetry: it stays outstanding until *)
(* it resolves with the text or rejects with an error, and a streamed call *)
(* hands over chunks of text meanwhile.  Time is counted in ms and         *)
(* advances in steps of TickMs; every pending timer carries the time       *)
(* elapsed since it was set and fires at the instant it is due.            *)
(***************************************************************************)
EXTENDS Integers, Sequences, FiniteSets, TLC

VARIABLES
    \* ---- one translate() request (GeminiProvider) ----
    genAI,          \* TRUE iff an API key was configured (this.genAI non-null)
    input,          \* what is to be translated: "text" (a string) or "image"
    onStreamUpdate, \* TRUE iff the caller passed a stream callback
    status,         \* "idle" (not called), "running" (awaiting), "done" (settled)
    result,         \* what translate() settled with
    cur,            \* catalog index _tryModelsInOrder is awaiting (0: none)
    lastError,      \* _tryModelsInOrder's lastError
    loop,           \* per entry: the _generateWithRetry invocation started for it
    timer,          \* per entry: the setTimeout of _generateWithTimeout
    \* ---- observation of the request (history, not program state) ----
    tried,          \* entries the orchestrator started, in order
    invocations,    \* per entry: backend calls made (generateContent[Stream])
    waited,         \* per entry: ms the retry loop has spent sleeping
    entryError,     \* per entry: the error the orchestrator caught for it
    sink,           \* the last call of onStreamUpdate: who made it, with what
    \* ---- PDF live session (ChineseTranslatorApp) ----
    pdfLiveModeActive,
    translationInProgress,
    liveTranslateDebounceTimer,   \* the stored handle: "null" or "handle"
    debouncePending,              \* TRUE iff the debounce setTimeout is still pending
    pdfDoc,                       \* pdfViewer.pdfDoc is loaded
    selectionBox,                 \* this.selectionBox exists
    onMoveEnd,                    \* selectionBox.onMoveEnd is subscribed
    cycles,                       \* pdfLiveTranslate calls awaiting translate()
    cyclesStarted,                \* number of translate() calls made by live cycles
    stickyNote,                   \* what the sticky note shows
    translatedText,               \* textContent of the element 'translatedText'
    debounceElapsed,              \* ms since the pending debounce timer was set
    \* ---- observation of the session (history, not program state) ----
    selectionDirty,               \* the selection moved since it was last captured
    moveEnds,                     \* onMoveEnd callbacks made so far
    burst,                        \* onMoveEnd callbacks that (re)set the last timer
    \* ---- manual translation, credits, word pairs (ChineseTranslatorApp) ----
    credits,                      \* credits the CreditService still holds
    manualPos,                    \* where an unfinished captureAndTranslate() waits
    wordPairs,                    \* translateWithWordPairs calls that are outstanding
    manualCalls,                  \* history: translate() calls of captureAndTranslate
    wpLast,                       \* history: how the last such call ended
    \* ---- camera live session (CameraTranslator) ----
    startPos,                     \* where an unfinished start() is suspended
    stream,                       \* this.stream is set
    isActive,
    isTranslating,
    lastTranslation,
    translationInterval,          \* the stored handle: "null" or "handle"
    intervals,                    \* setInterval timers that are alive
    initialTimers,                \* pending setTimeout(..., 1000) of the loop
    overlay,                      \* what the overlay canvas shows
    \* ---- observation of the camera session (history) ----
    starts,                       \* start() calls made
    camCalls,                     \* translate() calls made by captureAndTranslate
    camFailed,                    \* of these, the calls that rejected
    triggers,                     \* translateNow() calls made
    triggered,                    \* what the last translateNow() met
    stopped,                      \* stop() has returned and start() was not called since
    \* ---- one translate() request of the hybrid provider ----
    geminiApiKey,                 \* TRUE iff config.geminiApiKey is set
    hybridPos,                    \* where translate() of the hybrid provider waits
    requestBody,                  \* the body CustomModelProvider posts
    customError,                  \* what customProvider.translate threw
    hybridResult,                 \* what translate() of the hybrid provider settled with
    \* ---- observation of the hybrid request (history) ----
    customCalls,                  \* fetch calls of the custom provider
    geminiCalls,                  \* geminiProvider.translate calls
    \* ---- the credit service (CreditService) ----
    user,                         \* auth.currentUser is set (logged in)
    guestCredits,                 \* localStorage item 'guestCredits': Absent or Stored(n)
    userCredits,                  \* field credits of the user's Firestore document, if any
    cachedCredits,                \* this.cachedCredits: Absent (null) or Stored(n)
    useCalls,                     \* per call of useCredit(): where it waits, what it read and returned
    \* ---- observation of the credit service (history) ----
    openingBalance,               \* the stored balance before the first call
    successes,                    \* calls of useCredit() that returned success
    \* ---- the open documents (DocumentManager) ----
    documents,                    \* the Map, in insertion order: <<[id, type], ...>>
    activeTabId,                  \* n for 'doc-n', 0 for null
    nextId,
    \* ---- observation of the documents (history) ----
    removedIds,                   \* ids of the documents that were removed
    lastOp                        \* what the last call did

reqVars  == <<genAI, input, onStreamUpdate, status, result, cur, lastError, loop,
              timer, tried, invocations, waited, entryError, sink>>
liveVars == <<pdfLiveModeActive, translationInProgress, liveTranslateDebounceTimer,
              debouncePending, pdfDoc, selectionBox, onMoveEnd, cycles,
              cyclesStarted, stickyNote, translatedText, debounceElapsed,
              selectionDirty, moveEnds, burst,
              credits, manualPos, wordPairs, manualCalls, wpLast>>
manualVars == <<credits, manualPos, wordPairs, manualCalls, wpLast>>
camVars  == <<startPos, stream, isActive, isTranslating, lastTranslation,
              translationInterval, intervals, initialTimers, overlay,
              starts, camCalls, camFailed, triggers, triggered, stopped>>
hybridVars == <<geminiApiKey, hybridPos, requestBody, customError, hybridResult,
                customCalls, geminiCalls>>
creditVars == <<user, guestCredits, userCredits, cachedCredits, useCalls,
                openingBalance, successes>>
docVars  == <<documents, activeTabId, nextId, removedIds, lastOp>>
svcVars  == <<hybridVars, creditVars, docVars>>
vars     == <<reqVars, liveVars, camVars, svcVars>>

-----------------------------------------------------------------------------
(* Bounds *)

\* at most MaxCycles translate() calls are started by live cycles
MaxCycles == 2

\* a streamed call hands over at most MaxChunks chunks
MaxChunks == 2

\* at most MaxMoveEnds onMoveEnd callbacks are made
MaxMoveEnds == 2

\* the CreditService holds MaxCredits credits at the beginning
MaxCredits == 1

\* at most MaxWordPairs translateWithWordPairs calls are outstanding at a time
MaxWordPairs == 1

\* at most MaxStarts start() calls are made on the CameraTranslator
MaxStarts == 2

\* at most MaxCamCalls translate() calls are made by the CameraTranslator
MaxCamCalls == 3

\* at most MaxTriggers translateNow() calls are made
MaxTriggers == 2

\* at most MaxCreditCalls calls of useCredit() are made
MaxCreditCalls == 2

\* the stored balance is at most MaxBalance before the first call
MaxBalance == 3

\* at most MaxDocs documents are added
MaxDocs == 4

-----------------------------------------------------------------------------
(* Configuration of the program *)

\* the clock of a request advances in steps of its smallest delay
TickMs == 1000

\* variant: the last entry is raced against a deadline like the others
CatalogLastTimed ==
    << [name |-> "gemini-2.5-flash",     timeout |-> 45000],
       [name |-> "gemini-3-pro-preview", timeout |-> 60000],
       [name |-> "gemini-1.5-flash",     timeout |-> 60000] >>

\* the model list handed to _tryModelsInOrder; timeout 0 stands for null
Catalog ==
    << [name |-> "gemini-2.5-flash",     timeout |-> 45000],
       [name |-> "gemini-3-pro-preview", timeout |-> 60000],
       [name |-> "gemini-1.5-flash",     timeout |-> 0] >>

Entries == 1..Len(Catalog)

\* variant: no entry is raced against a deadline
HasTimeoutNever(e) == FALSE

\* `if (timeout)` in _tryModelsInOrder: null (and 0) is falsy
HasTimeout(e) == Catalog[e].timeout # 0

\* maxRetries = 3, the default parameter of _generateWithRetry
maxRetries == 3

\* variant: a fixed delay instead of a linear one
BackoffMsFixed(attempt) == 1000

\* setTimeout(r, attempt * 1000) in the catch of _generateWithRetry
BackoffMs(attempt) == attempt * 1000

(***************************************************************************)
(* Errors of a backend call.  The code looks only at error.message, so an  *)
(* error is modelled by the set of substrings its message contains.  The   *)
(* classes are those of the Gemini SDK's fetch errors: the HTTP status is  *)
(* part of the message ("[503 Service Unavailable] The model is            *)
(* overloaded"), a network failure carries no status.                      *)
(***************************************************************************)
ErrorClasses == {"RateLimited", "Overloaded", "Unavailable", "Malformed", "Unknown"}

MessageOf(cls) ==
    CASE cls = "RateLimited" -> {"429"}
      [] cls = "Overloaded"  -> {"503", "overloaded"}
      [] cls = "Unavailable" -> {"503"}
      [] cls = "Malformed"   -> {"400"}
      [] cls = "Unknown"     -> {}
      [] cls = "Timeout"     -> {"Timeout"}
      [] OTHER               -> {}

\* variant: every rejection is retried
IsRetryableAlways(cls) == TRUE

\* variant: the 429 test is missing
IsRetryableOnly503(cls) == "503" \in MessageOf(cls)

\* error.message.includes('503') || error.message.includes('429')
IsRetryable(cls) == "503" \in MessageOf(cls) \/ "429" \in MessageOf(cls)

\* new Error(`Timeout after ${timeoutMs}ms`)
TimeoutError == "Timeout"

\* variant: translate() rethrows what _tryModelsInOrder threw
WrapRethrow(err) == [kind |-> err, cause |-> "none"]

\* throw new Error(`Translation failed: ${error.message}`) in translate()
Wrap(err) == [kind |-> "TranslationFailed", cause |-> err]

\* throw new Error('API key not configured. ...')
ConfigurationError == [kind |-> "ConfigurationError", cause |-> "none"]

NoResult == [kind |-> "none", cause |-> "none"]

TextOf(e) == [kind |-> "text", cause |-> e]

-----------------------------------------------------------------------------
(* One translate() request *)

NoLoop == [phase |-> "none", attempt |-> 0, slept |-> 0, lastError |-> "none",
           fullText |-> 0]

\* the for loop of _generateWithRetry entered: attempt = 1, backend call issued
FirstAttempt == [phase |-> "calling", attempt |-> 1, slept |-> 0, lastError |-> "none",
           fullText |-> 0]

\* _generateWithRetry has thrown err after `attempt` backend calls
Thrown(attempt, err) ==
    [phase |-> "thrown", attempt |-> attempt, slept |-> 0, lastError |-> err,
     fullText |-> 0]

(***************************************************************************)
(* timer[e] is the setTimeout of the race of entry e.  "armed": pending    *)
(* and the race is unsettled, elapsed = ms since it was set.  The code     *)
(* never clears it: when the race is settled by the retry loop the timer   *)
(* stays pending ("stale") and its later firing rejects a promise whose    *)
(* race is over, which has no effect; its remaining time is not tracked.   *)
(***************************************************************************)
NoTimer    == [state |-> "none",  elapsed |-> 0]
ArmedTimer == [state |-> "armed", elapsed |-> 0]
StaleTimer == [state |-> "stale", elapsed |-> 0]
FiredTimer == [state |-> "fired", elapsed |-> 0]

\* variant: the outcome of any entry's retry loop reaches the orchestrator
AwaitingAnyEntry(e) == status = "running"

\* the orchestrator is suspended in `await` on entry e (its race is unsettled)
Awaiting(e) == status = "running" /\ cur = e

\* Promise.race of entry e settled by the retry loop: the timer is left pending
RaceSettled(tm, e) ==
    IF tm[e].state = "armed" THEN [tm EXCEPT ![e] = StaleTimer] ELSE tm

(***************************************************************************)
(* The body of the for loop of _tryModelsInOrder for entry e: the model is *)
(* obtained, the timeout timer is armed when the entry has a timeout, and  *)
(* _generateWithRetry issues its first backend call.  lp, tm, inv are the  *)
(* values of loop, timer and invocations the current step has produced.    *)
(***************************************************************************)
tryModel(e, lp, tm, inv) ==
    /\ cur' = e
    /\ tried' = Append(tried, e)
    /\ timer' = [tm EXCEPT ![e] = IF HasTimeout(e) THEN ArmedTimer ELSE NoTimer]
    /\ loop' = [lp EXCEPT ![e] = FirstAttempt]
    /\ invocations' = [inv EXCEPT ![e] = 1]

\* variant: a timed-out entry is started again instead of the next one
tryModelsInOrderCatchRetryTimeout(e, err, lp, tm, inv) ==
    /\ lastError' = err
    /\ entryError' = [entryError EXCEPT ![e] = err]
    /\ IF err = TimeoutError
       THEN /\ tryModel(e, lp, tm, inv)
            /\ UNCHANGED <<status, result>>
       ELSE IF e < Len(Catalog)
       THEN /\ tryModel(e + 1, lp, tm, inv)
            /\ UNCHANGED <<status, result>>
       ELSE /\ status' = "done"
            /\ result' = Wrap(err)
            /\ loop' = lp
            /\ timer' = tm
            /\ invocations' = inv
            /\ UNCHANGED <<cur, tried>>

(***************************************************************************)
(* The catch of _tryModelsInOrder for entry e, reached when the awaited    *)
(* promise rejects with err: record the error and go on with the next      *)
(* entry; after the last entry `throw lastError`, which translate() wraps. *)
(***************************************************************************)
tryModelsInOrderCatch(e, err, lp, tm, inv) ==
    /\ lastError' = err
    /\ entryError' = [entryError EXCEPT ![e] = err]
    /\ IF e < Len(Catalog)
       THEN /\ tryModel(e + 1, lp, tm, inv)
            /\ UNCHANGED <<status, result>>
       ELSE /\ status' = "done"
            /\ result' = Wrap(err)
            /\ loop' = lp
            /\ timer' = tm
            /\ invocations' = inv
            /\ UNCHANGED <<cur, tried>>

\* variant: the catalog is tried although no API key is configured
translateUnchecked ==
    /\ status = "idle"
    /\ status' = "running"
    /\ tryModel(1, loop, timer, invocations)
    /\ UNCHANGED result
    /\ UNCHANGED <<genAI, lastError, waited, entryError>>
    /\ UNCHANGED <<input, onStreamUpdate, sink>>
    /\ UNCHANGED <<liveVars, camVars, svcVars>>

\* translate(input, targetLanguage, onStreamUpdate) is called
translate ==
    /\ status = "idle"
    /\ IF ~genAI
       THEN /\ status' = "done"
            /\ result' = ConfigurationError
            /\ UNCHANGED <<cur, tried, timer, loop, invocations>>
       ELSE /\ status' = "running"
            /\ tryModel(1, loop, timer, invocations)
            /\ UNCHANGED result
    /\ UNCHANGED <<genAI, lastError, waited, entryError>>
    /\ UNCHANGED <<input, onStreamUpdate, sink>>
    /\ UNCHANGED <<liveVars, camVars, svcVars>>

\* variant: the text of whichever call resolves last becomes the result
generateContentResolvesLate(e) ==
    /\ loop[e].phase = "calling"
    /\ loop' = [loop EXCEPT ![e].phase = "returned"]
    /\ status' = "done"
    /\ result' = TextOf(e)
    /\ timer' = RaceSettled(timer, e)
    /\ UNCHANGED <<genAI, cur, lastError, tried, invocations, waited, entryError>>
    /\ UNCHANGED <<input, onStreamUpdate, sink>>
    /\ UNCHANGED <<liveVars, camVars, svcVars>>

\* the backend call of entry e resolves: _generateWithRetry returns the text
generateContentResolves(e) ==
    /\ loop[e].phase = "calling"
    /\ loop' = [loop EXCEPT ![e].phase = "returned"]
    /\ IF Awaiting(e)
       THEN /\ status' = "done"
            /\ result' = TextOf(e)
            /\ timer' = RaceSettled(timer, e)
       ELSE UNCHANGED <<status, result, timer>>
    /\ UNCHANGED <<genAI, cur, lastError, tried, invocations, waited, entryError>>
    /\ UNCHANGED <<input, onStreamUpdate, sink>>
    /\ UNCHANGED <<liveVars, camVars, svcVars>>

\* variant: the last attempt's transient failure is thrown without a backoff
generateContentRejectsNoFinalWait(e, cls) ==
    /\ loop[e].phase = "calling"
    /\ IF IsRetryable(cls) /\ loop[e].attempt < maxRetries
       THEN /\ loop' = [loop EXCEPT ![e] = [phase |-> "backoff",
                                            attempt |-> loop[e].attempt,
                                            slept |-> 0,
                                            lastError |-> cls,
                                            fullText |-> 0]]
            /\ UNCHANGED <<status, result, cur, lastError, timer, tried,
                           invocations, entryError>>
       ELSE LET lp == [loop EXCEPT ![e] = Thrown(loop[e].attempt, cls)]
            IN  IF Awaiting(e)
                THEN tryModelsInOrderCatch(e, cls, lp, RaceSettled(timer, e), invocations)
                ELSE /\ loop' = lp
                     /\ UNCHANGED <<status, result, cur, lastError, timer, tried,
                                    invocations, entryError>>
    /\ UNCHANGED <<genAI, waited>>
    /\ UNCHANGED <<input, onStreamUpdate, sink>>
    /\ UNCHANGED <<liveVars, camVars, svcVars>>

\* the backend call of entry e rejects with an error of class cls
generateContentRejects(e, cls) ==
    /\ loop[e].phase = "calling"
    /\ IF IsRetryable(cls)
       THEN \* await new Promise(r => setTimeout(r, attempt * 1000)); continue
            /\ loop' = [loop EXCEPT ![e] = [phase |-> "backoff",
                                            attempt |-> loop[e].attempt,
                                            slept |-> 0,
                                            lastError |-> cls,
                                            fullText |-> 0]]
            /\ UNCHANGED <<status, result, cur, lastError, timer, tried,
                           invocations, entryError>>
       ELSE \* throw error
            LET lp == [loop EXCEPT ![e] = Thrown(loop[e].attempt, cls)]
            IN  IF Awaiting(e)
                THEN tryModelsInOrderCatch(e, cls, lp, RaceSettled(timer, e), invocations)
                ELSE /\ loop' = lp
                     /\ UNCHANGED <<status, result, cur, lastError, timer, tried,
                                    invocations, entryError>>
    /\ UNCHANGED <<genAI, waited>>
    /\ UNCHANGED <<input, onStreamUpdate, sink>>
    /\ UNCHANGED <<liveVars, camVars, svcVars>>

\* variant: the retry loop runs one iteration more
backoffTimerFiresOneMore(e) ==
    /\ loop[e].phase = "backoff"
    /\ loop[e].slept = BackoffMs(loop[e].attempt)
    /\ IF loop[e].attempt <= maxRetries
       THEN /\ loop' = [loop EXCEPT ![e] = [phase |-> "calling",
                                            attempt |-> loop[e].attempt + 1,
                                            slept |-> 0,
                                            lastError |-> loop[e].lastError,
                                            fullText |-> 0]]
            /\ invocations' = [invocations EXCEPT ![e] = @ + 1]
            /\ UNCHANGED <<status, result, cur, lastError, timer, tried, entryError>>
       ELSE LET lp == [loop EXCEPT ![e] = Thrown(loop[e].attempt, loop[e].lastError)]
            IN  IF Awaiting(e)
                THEN tryModelsInOrderCatch(e, loop[e].lastError, lp,
                                           RaceSettled(timer, e), invocations)
                ELSE /\ loop' = lp
                     /\ UNCHANGED <<status, result, cur, lastError, timer, tried,
                                    invocations, entryError>>
    /\ UNCHANGED <<genAI, waited>>
    /\ UNCHANGED <<input, onStreamUpdate, sink>>
    /\ UNCHANGED <<liveVars, camVars, svcVars>>

\* the backoff timer of entry e's retry loop fires: `continue`
backoffTimerFires(e) ==
    /\ loop[e].phase = "backoff"
    /\ loop[e].slept = BackoffMs(loop[e].attempt)
    /\ IF loop[e].attempt + 1 <= maxRetries
       THEN \* next iteration: the backend is called again
            /\ loop' = [loop EXCEPT ![e] = [phase |-> "calling",
                                            attempt |-> loop[e].attempt + 1,
                                            slept |-> 0,
                                            lastError |-> loop[e].lastError,
                                            fullText |-> 0]]
            /\ invocations' = [invocations EXCEPT ![e] = @ + 1]
            /\ UNCHANGED <<status, result, cur, lastError, timer, tried, entryError>>
       ELSE \* loop exhausted: throw lastError
            LET lp == [loop EXCEPT ![e] = Thrown(loop[e].attempt, loop[e].lastError)]
            IN  IF Awaiting(e)
                THEN tryModelsInOrderCatch(e, loop[e].lastError, lp,
                                           RaceSettled(timer, e), invocations)
                ELSE /\ loop' = lp
                     /\ UNCHANGED <<status, result, cur, lastError, timer, tried,
                                    invocations, entryError>>
    /\ UNCHANGED <<genAI, waited>>
    /\ UNCHANGED <<input, onStreamUpdate, sink>>
    /\ UNCHANGED <<liveVars, camVars, svcVars>>

\* variant: an image is treated like a text
isVisionNever == FALSE

\* const isVision = Array.isArray(payload): _buildTranslationPayload gives an
\* array for an image and a string for a text
isVision == input = "image"

\* onStreamUpdate has not been called
NoDelivery == [entry |-> 0, attempt |-> 0, fullText |-> 0]

\* variant: the callback is given the chunk, not the accumulated text
streamChunkOnly(e) ==
    /\ loop[e].phase = "calling"
    /\ ~isVision
    /\ onStreamUpdate
    /\ loop[e].fullText < MaxChunks
    /\ loop' = [loop EXCEPT ![e].fullText = @ + 1]
    /\ sink' = [entry |-> e, attempt |-> loop[e].attempt, fullText |-> 1]
    /\ UNCHANGED <<genAI, input, onStreamUpdate, status, result, cur, lastError,
                   timer, tried, invocations, waited, entryError>>
    /\ UNCHANGED <<liveVars, camVars, svcVars>>

(***************************************************************************)
(* The streamed call of entry e hands over one more chunk: the body of     *)
(* `for await (const chunk of result.stream)`.  Texts are modelled by      *)
(* their length, a chunk by one unit of text (an empty chunk would leave   *)
(* fullText as it is).  The callback is called whether or not the          *)
(* orchestrator still awaits this entry.                                   *)
(***************************************************************************)
streamChunk(e) ==
    /\ loop[e].phase = "calling"
    /\ ~isVision
    /\ onStreamUpdate
    /\ loop[e].fullText < MaxChunks
    /\ loop' = [loop EXCEPT ![e].fullText = @ + 1]              \* fullText += chunk.text()
    /\ sink' = [entry |-> e, attempt |-> loop[e].attempt,
                fullText |-> loop[e].fullText + 1]              \* onStreamUpdate(fullText)
    /\ UNCHANGED <<genAI, input, onStreamUpdate, status, result, cur, lastError,
                   timer, tried, invocations, waited, entryError>>
    /\ UNCHANGED <<liveVars, camVars, svcVars>>

\* variant: the timer's rejection never reaches the orchestrator
timeoutTimerFiresIgnored(e) ==
    /\ \/ timer[e].state = "armed" /\ timer[e].elapsed = Catalog[e].timeout
       \/ timer[e].state = "stale"
    /\ timer' = [timer EXCEPT ![e] = FiredTimer]
    /\ UNCHANGED <<genAI, status, result, cur, lastError, loop, tried,
                   invocations, waited, entryError>>
    /\ UNCHANGED <<input, onStreamUpdate, sink>>
    /\ UNCHANGED <<liveVars, camVars, svcVars>>

\* the setTimeout of _generateWithTimeout for entry e fires
timeoutTimerFires(e) ==
    /\ \/ timer[e].state = "armed" /\ timer[e].elapsed = Catalog[e].timeout
       \/ timer[e].state = "stale"
    /\ LET tm == [timer EXCEPT ![e] = FiredTimer]
       IN  IF Awaiting(e)
           THEN \* the race rejects; the retry loop of e is not stopped
                tryModelsInOrderCatch(e, TimeoutError, loop, tm, invocations)
           ELSE \* the race was settled before: rejecting has no effect
                /\ timer' = tm
                /\ UNCHANGED <<status, result, cur, lastError, loop, tried,
                               invocations, entryError>>
    /\ UNCHANGED <<genAI, waited>>
    /\ UNCHANGED <<input, onStreamUpdate, sink>>
    /\ UNCHANGED <<liveVars, camVars, svcVars>>

\* a timer is due at the present instant
TimerDue ==
    \/ \E e \in Entries : /\ timer[e].state = "armed"
                          /\ timer[e].elapsed >= Catalog[e].timeout
    \/ \E e \in Entries : /\ loop[e].phase = "backoff"
                          /\ loop[e].slept >= BackoffMs(loop[e].attempt)

\* a timer whose remaining time matters is pending
TimerRunning ==
    \E e \in Entries : timer[e].state = "armed" \/ loop[e].phase = "backoff"

\* TickMs pass: every running timer ages, every sleeping retry loop has slept
Tick ==
    /\ TimerRunning
    /\ ~TimerDue
    /\ timer' = [e \in Entries |->
                    IF timer[e].state = "armed"
                    THEN [timer[e] EXCEPT !.elapsed = @ + TickMs]
                    ELSE timer[e]]
    /\ loop' = [e \in Entries |->
                    IF loop[e].phase = "backoff"
                    THEN [loop[e] EXCEPT !.slept = @ + TickMs]
                    ELSE loop[e]]
    /\ waited' = [e \in Entries |->
                    IF loop[e].phase = "backoff" THEN waited[e] + TickMs ELSE waited[e]]
    /\ UNCHANGED <<genAI, status, result, cur, lastError, tried, invocations, entryError>>
    /\ UNCHANGED <<input, onStreamUpdate, sink>>
    /\ UNCHANGED <<liveVars, camVars, svcVars>>

-----------------------------------------------------------------------------
(* The PDF live-translation session *)

\* the delay of the debounce setTimeout of scheduleDebounceTranslation
DebounceMs == 800

\* the clock of the session advances in steps that divide the debounce delay
LiveTickMs == 400

\* what getCanvasPosition / getCanvasImageData give for the selection
Crops == {"image", "noOverlap", "noImageData"}

\* how the awaited translationService.translate() of a cycle settles
Outcomes == {"text", "empty", "error"}

\* SelectionBox.updateStickyNote: writes only into an existing overlay
updateStickyNote(note, text) == IF note = "hidden" THEN "hidden" ELSE text

\* clearTimeout(this.liveTranslateDebounceTimer) when the handle is set
clearDebounceTimer ==
    /\ debouncePending' = IF liveTranslateDebounceTimer # "null"
                          THEN FALSE ELSE debouncePending
    /\ debounceElapsed' = IF liveTranslateDebounceTimer # "null"
                          THEN 0 ELSE debounceElapsed

\* variant: a cycle skipped for want of a selection leaves the flag set
pdfLiveTranslateSkipKeepsFlag(active, inProgress, crop) ==
    IF ~active \/ ~pdfDoc \/ ~selectionBox
    THEN /\ translationInProgress' = inProgress
         /\ UNCHANGED <<cycles, cyclesStarted, stickyNote, selectionDirty>>
    ELSE IF inProgress
    THEN /\ translationInProgress' = inProgress
         /\ UNCHANGED <<cycles, cyclesStarted, stickyNote, selectionDirty>>
    ELSE IF crop = "noOverlap"
    THEN /\ stickyNote' = "Move selection to translate"
         /\ translationInProgress' = TRUE
         /\ selectionDirty' = FALSE
         /\ UNCHANGED <<cycles, cyclesStarted>>
    ELSE IF crop = "noImageData"
    THEN /\ stickyNote' = "No image captured"
         /\ translationInProgress' = FALSE
         /\ selectionDirty' = FALSE
         /\ UNCHANGED <<cycles, cyclesStarted>>
    ELSE /\ translationInProgress' = TRUE
         /\ stickyNote' = "Translating..."
         /\ selectionDirty' = FALSE
         /\ cycles' = cycles + 1
         /\ cyclesStarted' = cyclesStarted + 1

(***************************************************************************)
(* pdfLiveTranslate() up to its first await, called in a state where the   *)
(* session fields have the values active and inProgress.  Gives the new    *)
(* values of translationInProgress, cycles, cyclesStarted, stickyNote and  *)
(* selectionDirty (getCanvasPosition reads the selection as it is now).    *)
(***************************************************************************)
pdfLiveTranslate(active, inProgress, crop) ==
    IF ~active \/ ~pdfDoc \/ ~selectionBox
    THEN \* return
         /\ translationInProgress' = inProgress
         /\ UNCHANGED <<cycles, cyclesStarted, stickyNote, selectionDirty>>
    ELSE IF inProgress
    THEN \* Prevent concurrent translations: return
         /\ translationInProgress' = inProgress
         /\ UNCHANGED <<cycles, cyclesStarted, stickyNote, selectionDirty>>
    ELSE IF crop = "noOverlap"
    THEN /\ stickyNote' = "Move selection to translate"
         /\ translationInProgress' = FALSE
         /\ selectionDirty' = FALSE
         /\ UNCHANGED <<cycles, cyclesStarted>>
    ELSE IF crop = "noImageData"
    THEN /\ stickyNote' = "No image captured"
         /\ translationInProgress' = FALSE
         /\ selectionDirty' = FALSE
         /\ UNCHANGED <<cycles, cyclesStarted>>
    ELSE \* await this.translationService.translate(...)
         /\ translationInProgress' = TRUE
         /\ stickyNote' = "Translating..."
         /\ selectionDirty' = FALSE
         /\ cycles' = cycles + 1
         /\ cyclesStarted' = cyclesStarted + 1

\* ChineseTranslatorApp.loadPDF: the document is loaded, a SelectionBox is created
loadPDF ==
    /\ pdfDoc' = TRUE
    /\ selectionBox' = TRUE
    /\ onMoveEnd' = FALSE
    /\ UNCHANGED <<pdfLiveModeActive, translationInProgress, liveTranslateDebounceTimer,
                   debouncePending, debounceElapsed, cycles, cyclesStarted,
                   stickyNote, translatedText, selectionDirty, moveEnds, burst>>
    /\ UNCHANGED manualVars
    /\ UNCHANGED <<reqVars, camVars, svcVars>>

\* the live-mode button is pressed
togglePdfLiveMode(crop) ==
    /\ IF pdfLiveModeActive
       THEN \* Deactivate
            /\ pdfLiveModeActive' = FALSE
            /\ liveTranslateDebounceTimer' = "null"
            /\ clearDebounceTimer
            /\ onMoveEnd' = IF selectionBox THEN FALSE ELSE onMoveEnd
            /\ stickyNote' = IF selectionBox THEN "hidden" ELSE stickyNote
            /\ UNCHANGED <<translationInProgress, cycles, cyclesStarted, selectionDirty>>
       ELSE \* Activate
            /\ cyclesStarted < MaxCycles
            /\ pdfLiveModeActive' = TRUE
            /\ onMoveEnd' = IF selectionBox THEN TRUE ELSE onMoveEnd
            /\ pdfLiveTranslate(TRUE, FALSE, crop)
            /\ UNCHANGED <<liveTranslateDebounceTimer, debouncePending, debounceElapsed>>
    /\ UNCHANGED <<pdfDoc, selectionBox, translatedText, moveEnds, burst>>
    /\ UNCHANGED manualVars
    /\ UNCHANGED <<reqVars, camVars, svcVars>>

\* scheduleDebounceTranslation(): the onMoveEnd callback
scheduleDebounceTranslation ==
    /\ moveEnds' = moveEnds + 1
    /\ IF translationInProgress
       THEN \* the old timer is cleared, nothing is scheduled
            /\ clearDebounceTimer
            /\ UNCHANGED <<liveTranslateDebounceTimer, burst>>
       ELSE \* the old timer is cleared, a new one is set
            /\ debouncePending' = TRUE
            /\ debounceElapsed' = 0
            /\ liveTranslateDebounceTimer' = "handle"
            /\ burst' = IF debouncePending THEN burst + 1 ELSE 1

\* SelectionBox.handleEnd after a drag or resize
handleEnd ==
    /\ selectionBox
    /\ selectionDirty' = TRUE
    /\ IF onMoveEnd
       THEN /\ moveEnds < MaxMoveEnds
            /\ scheduleDebounceTranslation
       ELSE UNCHANGED <<debouncePending, debounceElapsed, liveTranslateDebounceTimer,
                        moveEnds, burst>>
    /\ UNCHANGED <<pdfLiveModeActive, translationInProgress, pdfDoc, selectionBox,
                   onMoveEnd, cycles, cyclesStarted, stickyNote, translatedText>>
    /\ UNCHANGED manualVars
    /\ UNCHANGED <<reqVars, camVars, svcVars>>

\* variant: the debounce timer fires before its delay is over
debounceTimerFiresEarly(crop) ==
    /\ debouncePending
    /\ cyclesStarted < MaxCycles
    /\ debouncePending' = FALSE
    /\ debounceElapsed' = 0
    /\ IF pdfLiveModeActive
       THEN pdfLiveTranslate(pdfLiveModeActive, translationInProgress, crop)
       ELSE UNCHANGED <<translationInProgress, cycles, cyclesStarted, stickyNote,
                        selectionDirty>>
    /\ UNCHANGED <<pdfLiveModeActive, liveTranslateDebounceTimer, pdfDoc,
                   selectionBox, onMoveEnd, translatedText, moveEnds, burst>>
    /\ UNCHANGED manualVars
    /\ UNCHANGED <<reqVars, camVars, svcVars>>

\* the debounce timer fires, DebounceMs after it was set
debounceTimerFires(crop) ==
    /\ debouncePending
    /\ debounceElapsed = DebounceMs
    /\ cyclesStarted < MaxCycles
    /\ debouncePending' = FALSE
    /\ debounceElapsed' = 0
    /\ IF pdfLiveModeActive
       THEN pdfLiveTranslate(pdfLiveModeActive, translationInProgress, crop)
       ELSE UNCHANGED <<translationInProgress, cycles, cyclesStarted, stickyNote,
                        selectionDirty>>
    /\ UNCHANGED <<pdfLiveModeActive, liveTranslateDebounceTimer, pdfDoc,
                   selectionBox, onMoveEnd, translatedText, moveEnds, burst>>
    /\ UNCHANGED manualVars
    /\ UNCHANGED <<reqVars, camVars, svcVars>>

\* LiveTickMs pass while the debounce timer is pending and not yet due
LiveTick ==
    /\ debouncePending
    /\ debounceElapsed < DebounceMs
    /\ debounceElapsed' = debounceElapsed + LiveTickMs
    /\ UNCHANGED <<pdfLiveModeActive, translationInProgress, liveTranslateDebounceTimer,
                   debouncePending, pdfDoc, selectionBox, onMoveEnd, cycles,
                   cyclesStarted, stickyNote, translatedText, selectionDirty,
                   moveEnds, burst>>
    /\ UNCHANGED manualVars
    /\ UNCHANGED <<reqVars, camVars, svcVars>>

\* fetchWordPairs(visionPayload) up to its await: translateWithWordPairs is called
fetchWordPairs == wordPairs' = wordPairs + 1

\* variant: the flag is cleared after the try block, not in a finally
translateSettlesNoFinally(outcome) ==
    /\ cycles > 0
    /\ cycles' = cycles - 1
    /\ stickyNote' = updateStickyNote(stickyNote,
                        CASE outcome = "text"  -> "translation"
                          [] outcome = "empty" -> "No Chinese text detected"
                          [] OTHER             -> "Error - try moving the box")
    /\ translatedText' = IF outcome = "text" THEN "translation" ELSE translatedText
    /\ IF outcome = "text"
       THEN /\ wordPairs < MaxWordPairs
            /\ fetchWordPairs
       ELSE UNCHANGED wordPairs
    /\ translationInProgress' = (outcome = "error" /\ translationInProgress)
    /\ UNCHANGED <<pdfLiveModeActive, liveTranslateDebounceTimer, debouncePending,
                   debounceElapsed, pdfDoc, selectionBox, onMoveEnd, cyclesStarted,
                   selectionDirty, moveEnds, burst>>
    /\ UNCHANGED <<credits, manualPos, manualCalls, wpLast>>
    /\ UNCHANGED <<reqVars, camVars, svcVars>>

\* the translate() awaited by one live cycle settles: rest of pdfLiveTranslate
translateSettles(outcome) ==
    /\ cycles > 0
    /\ cycles' = cycles - 1
    /\ stickyNote' = updateStickyNote(stickyNote,
                        CASE outcome = "text"  -> "translation"
                          [] outcome = "empty" -> "No Chinese text detected"
                          [] OTHER             -> "Error - try moving the box")
    /\ translatedText' = IF outcome = "text" THEN "translation" ELSE translatedText
    /\ IF outcome = "text"
       THEN /\ wordPairs < MaxWordPairs
            /\ fetchWordPairs
       ELSE UNCHANGED wordPairs
    /\ translationInProgress' = FALSE      \* finally
    /\ UNCHANGED <<pdfLiveModeActive, liveTranslateDebounceTimer, debouncePending,
                   debounceElapsed, pdfDoc, selectionBox, onMoveEnd, cyclesStarted,
                   selectionDirty, moveEnds, burst>>
    /\ UNCHANGED <<credits, manualPos, manualCalls, wpLast>>
    /\ UNCHANGED <<reqVars, camVars, svcVars>>

\* the frame of the steps of the manual translation
manualFrame ==
    /\ UNCHANGED <<pdfLiveModeActive, translationInProgress, liveTranslateDebounceTimer,
                   debouncePending, pdfDoc, selectionBox, onMoveEnd, cycles,
                   cyclesStarted, debounceElapsed, selectionDirty, moveEnds, burst>>
    /\ UNCHANGED <<reqVars, camVars, svcVars>>

\* captureAndTranslate() of the app (the Translate button): it awaits useCredit()
manualCaptureAndTranslate ==
    /\ selectionBox
    /\ manualPos = "none"
    /\ manualPos' = "useCredit"
    /\ UNCHANGED <<credits, wordPairs, manualCalls, wpLast, stickyNote, translatedText>>
    /\ manualFrame

(***************************************************************************)
(* useCredit() settles and captureAndTranslate() runs on to its next       *)
(* await.  ok = FALSE stands for a failure of the credit store; with no    *)
(* credit left useCredit() fails whatever the store does.                  *)
(***************************************************************************)
useCreditSettles(ok, crop) ==
    /\ manualPos = "useCredit"
    /\ IF ~ok \/ credits <= 0
       THEN \* creditResult.success is false: a modal is shown, return
            /\ manualPos' = "none"
            /\ UNCHANGED <<credits, manualCalls, stickyNote, translatedText>>
       ELSE /\ credits' = credits - 1
            /\ IF ~genAI
               THEN \* no API key in the settings: showError, return
                    /\ manualPos' = "none"
                    /\ UNCHANGED <<manualCalls, stickyNote, translatedText>>
               ELSE IF crop # "image"
               THEN \* throw inside try; catch: hideStickyNote, alert
                    /\ manualPos' = "none"
                    /\ stickyNote' = "hidden"
                    /\ UNCHANGED <<manualCalls, translatedText>>
               ELSE \* await this.translationService.translate(...)
                    /\ manualPos' = "translate"
                    /\ stickyNote' = "Translating..."
                    /\ translatedText' = ""
                    /\ manualCalls' = manualCalls + 1
    /\ UNCHANGED <<wordPairs, wpLast>>
    /\ manualFrame

\* the translate() awaited by captureAndTranslate() settles: the rest of it
manualTranslateSettles(outcome) ==
    /\ manualPos = "translate"
    /\ manualPos' = "none"
    /\ IF outcome = "error"
       THEN \* catch: hideStickyNote, alert
            /\ stickyNote' = "hidden"
            /\ UNCHANGED <<translatedText, wordPairs>>
       ELSE LET translation == IF outcome = "text" THEN "translation" ELSE ""
            IN  /\ wordPairs < MaxWordPairs
                /\ stickyNote' = updateStickyNote(stickyNote, translation)
                /\ translatedText' = translation
                /\ fetchWordPairs
    /\ UNCHANGED <<credits, manualCalls, wpLast>>
    /\ manualFrame

\* how the one generateContent call of translateWithWordPairs ends
WordPairOutcomes == {"json", "notJson", "Unavailable"}

\* backend calls translateWithWordPairs makes before it settles
WordPairInvocations == 1

(***************************************************************************)
(* translateWithWordPairs settles: it has called generateContent once, on  *)
(* one model, and returns what was parsed (or the raw text) or rethrows    *)
(* the error; fetchWordPairs catches it.                                   *)
(***************************************************************************)
wordPairsSettles(outcome) ==
    /\ wordPairs > 0
    /\ wordPairs' = wordPairs - 1
    /\ wpLast' = [outcome |-> IF outcome \in {"json", "notJson"}
                              THEN "returned" ELSE outcome,
                  invocations |-> WordPairInvocations]
    /\ UNCHANGED <<credits, manualPos, manualCalls, stickyNote, translatedText>>
    /\ manualFrame

\* ChineseTranslatorApp.resetApp
resetApp ==
    /\ pdfDoc' = FALSE
    /\ stickyNote' = IF selectionBox THEN "hidden" ELSE stickyNote
    /\ IF pdfLiveModeActive
       THEN /\ pdfLiveModeActive' = FALSE
            /\ liveTranslateDebounceTimer' = "null"
            /\ clearDebounceTimer
            /\ onMoveEnd' = IF selectionBox THEN FALSE ELSE onMoveEnd
       ELSE UNCHANGED <<pdfLiveModeActive, liveTranslateDebounceTimer,
                        debouncePending, debounceElapsed, onMoveEnd>>
    /\ UNCHANGED <<translationInProgress, selectionBox, cycles, cyclesStarted,
                   translatedText, selectionDirty, moveEnds, burst>>
    /\ UNCHANGED manualVars
    /\ UNCHANGED <<reqVars, camVars, svcVars>>

-----------------------------------------------------------------------------
(* The camera live session (CameraTranslator) *)

(***************************************************************************)
(* The timers of startTranslationLoop are modelled without their delays:   *)
(* a pending timer may fire at any later step.  The handle of the initial  *)
(* setTimeout is not stored by the code, so only their number is kept.     *)
(***************************************************************************)

\* variant: a frame is captured although a translation is in progress
captureAndTranslateUnguarded ==
    IF ~isActive
    THEN UNCHANGED <<isTranslating, overlay, camCalls>>
    ELSE /\ isTranslating' = TRUE
         /\ overlay' = "Translating..."
         /\ camCalls' = camCalls + 1

\* captureAndTranslate() up to its await: the guard, the flag, the overlay
captureAndTranslate ==
    IF ~isActive \/ isTranslating
    THEN UNCHANGED <<isTranslating, overlay, camCalls>>
    ELSE /\ isTranslating' = TRUE
         /\ overlay' = "Translating..."         \* showLoadingOverlay
         /\ camCalls' = camCalls + 1            \* translationService.translate(...)

\* start() is called: it awaits getUserMedia
start ==
    /\ startPos = "none"
    /\ starts < MaxStarts
    /\ startPos' = "getUserMedia"
    /\ starts' = starts + 1
    /\ stopped' = FALSE
    /\ UNCHANGED <<stream, isActive, isTranslating, lastTranslation,
                   translationInterval, intervals, initialTimers, overlay,
                   camCalls, camFailed, triggers, triggered>>
    /\ UNCHANGED <<reqVars, liveVars, svcVars>>

\* getUserMedia settles: start() goes on to await video.play(), or gives up
getUserMediaSettles(ok) ==
    /\ startPos = "getUserMedia"
    /\ IF ok
       THEN /\ stream' = TRUE
            /\ startPos' = "play"
       ELSE /\ startPos' = "none"                \* return { success: false }
            /\ UNCHANGED stream
    /\ UNCHANGED <<isActive, isTranslating, lastTranslation, translationInterval,
                   intervals, initialTimers, overlay, starts, camCalls, camFailed,
                   triggers, triggered, stopped>>
    /\ UNCHANGED <<reqVars, liveVars, svcVars>>

\* variant: the loop has no initial timer, only the interval
startTranslationLoopNoInitial ==
    /\ initialTimers' = initialTimers
    /\ intervals' = intervals + 1
    /\ translationInterval' = "handle"

\* startTranslationLoop(): one setTimeout, one setInterval whose handle is kept
startTranslationLoop ==
    /\ initialTimers' = initialTimers + 1
    /\ intervals' = intervals + 1
    /\ translationInterval' = "handle"

\* video.play() settles: the rest of start()
playSettles(ok) ==
    /\ startPos = "play"
    /\ startPos' = "none"
    /\ IF ok
       THEN /\ isActive' = TRUE
            /\ startTranslationLoop
       ELSE UNCHANGED <<isActive, initialTimers, intervals, translationInterval>>
    /\ UNCHANGED <<stream, isTranslating, lastTranslation, overlay, starts,
                   camCalls, camFailed, triggers, triggered, stopped>>
    /\ UNCHANGED <<reqVars, liveVars, svcVars>>

\* stop()
stop ==
    /\ isActive' = FALSE
    /\ intervals' = IF translationInterval # "null" THEN intervals - 1 ELSE intervals
    /\ translationInterval' = "null"
    /\ stream' = FALSE
    /\ overlay' = "clear"
    /\ lastTranslation' = ""
    /\ stopped' = TRUE
    /\ UNCHANGED <<startPos, isTranslating, initialTimers, starts, camCalls,
                   camFailed, triggers, triggered>>
    /\ UNCHANGED <<reqVars, liveVars, svcVars>>

\* the setTimeout of startTranslationLoop fires
initialTimerFires ==
    /\ initialTimers > 0
    /\ camCalls < MaxCamCalls
    /\ initialTimers' = initialTimers - 1
    /\ captureAndTranslate
    /\ UNCHANGED <<startPos, stream, isActive, lastTranslation, translationInterval,
                   intervals, starts, camFailed, triggers, triggered, stopped>>
    /\ UNCHANGED <<reqVars, liveVars, svcVars>>

\* a setInterval of startTranslationLoop fires
intervalFires ==
    /\ intervals > 0
    /\ camCalls < MaxCamCalls
    /\ IF isActive /\ ~isTranslating
       THEN captureAndTranslate
       ELSE UNCHANGED <<isTranslating, overlay, camCalls>>
    /\ UNCHANGED <<startPos, stream, isActive, lastTranslation, translationInterval,
                   intervals, initialTimers, starts, camFailed, triggers, triggered,
                   stopped>>
    /\ UNCHANGED <<reqVars, liveVars, svcVars>>

\* translateNow(): the manual trigger
translateNow ==
    /\ triggers < MaxTriggers
    /\ camCalls < MaxCamCalls
    /\ triggers' = triggers + 1
    /\ triggered' = IF ~isActive THEN "inactive"
                    ELSE IF isTranslating THEN "inFlight" ELSE "idle"
    /\ IF ~isActive
       THEN UNCHANGED <<isTranslating, overlay, camCalls>>
       ELSE captureAndTranslate
    /\ UNCHANGED <<startPos, stream, isActive, lastTranslation, translationInterval,
                   intervals, initialTimers, starts, camFailed, stopped>>
    /\ UNCHANGED <<reqVars, liveVars, svcVars>>

\* variant: a rejected translate() leaves the session marked as translating
cameraTranslateSettlesNoFinally(outcome) ==
    /\ isTranslating
    /\ lastTranslation' = IF outcome = "text" THEN "translation" ELSE lastTranslation
    /\ overlay' = CASE outcome = "text"  -> "translation"
                    [] outcome = "empty" -> "(No Chinese text detected)"
                    [] OTHER             -> "Translation failed - retrying..."
    /\ camFailed' = IF outcome = "error" THEN camFailed + 1 ELSE camFailed
    /\ isTranslating' = (outcome = "error")
    /\ UNCHANGED <<startPos, stream, isActive, translationInterval, intervals,
                   initialTimers, starts, camCalls, triggers, triggered, stopped>>
    /\ UNCHANGED <<reqVars, liveVars, svcVars>>

\* the translate() awaited by captureAndTranslate settles: the rest of it
cameraTranslateSettles(outcome) ==
    /\ isTranslating
    /\ lastTranslation' = IF outcome = "text" THEN "translation" ELSE lastTranslation
    /\ overlay' = CASE outcome = "text"  -> "translation"
                    [] outcome = "empty" -> "(No Chinese text detected)"
                    [] OTHER             -> "Translation failed - retrying..."
    /\ camFailed' = IF outcome = "error" THEN camFailed + 1 ELSE camFailed
    /\ isTranslating' = FALSE                   \* finally
    /\ UNCHANGED <<startPos, stream, isActive, translationInterval, intervals,
                   initialTimers, starts, camCalls, triggers, triggered, stopped>>
    /\ UNCHANGED <<reqVars, liveVars, svcVars>>

\* the fields after `new CameraTranslator(translationService)`
CameraInit ==
    /\ startPos = "none"
    /\ stream = FALSE
    /\ isActive = FALSE
    /\ isTranslating = FALSE
    /\ lastTranslation = ""
    /\ translationInterval = "null"
    /\ intervals = 0
    /\ initialTimers = 0
    /\ overlay = "clear"
    /\ starts = 0
    /\ camCalls = 0
    /\ camFailed = 0
    /\ triggers = 0
    /\ triggered = "never"
    /\ stopped = FALSE

-----------------------------------------------------------------------------
(* The hybrid provider (createHybridProvider) *)

\* what fetch() of the custom provider ends with: a response, or a rejection
FetchOutcomes == {"200", "404", "500", "NetworkError"}

\* response.ok
ResponseOk(resp) == resp = "200"

\* the fields the body of a response may carry
BodyFields == {"translation", "result", "text"}

\* how response.json() ends: a body with some of the fields, or a rejection
JsonOutcomes ==
    {[parsed |-> TRUE, fields |-> f] : f \in SUBSET BodyFields}
        \cup {[parsed |-> FALSE, fields |-> {}]}

\* throw new Error(`Custom model translation failed: ${error.message}`)
CustomFailed(message) == [kind |-> "CustomFailed", cause |-> message]

\* data.translation || data.result || data.text
CustomTextOf(data) ==
    IF "translation" \in data THEN [kind |-> "customText", cause |-> "translation"]
    ELSE IF "result" \in data THEN [kind |-> "customText", cause |-> "result"]
    ELSE IF "text" \in data   THEN [kind |-> "customText", cause |-> "text"]
    ELSE [kind |-> "undefined", cause |-> "none"]

\* what geminiProvider.translate can settle with
GeminiOutcomes ==
    IF ~geminiApiKey
    THEN {ConfigurationError}
    ELSE {TextOf(e) : e \in Entries}
            \cup {Wrap(err) : err \in ErrorClasses \cup {TimeoutError}}

\* the catch of the hybrid translate(): geminiProvider.translate is called
hybridCatch(message) ==
    /\ customError' = CustomFailed(message)
    /\ hybridPos' = "gemini"
    /\ geminiCalls' = geminiCalls + 1
    /\ UNCHANGED hybridResult

\* translate(input, ...) of the hybrid provider: customProvider.translate
\* builds its request and awaits fetch
hybridTranslate(in) ==
    /\ hybridPos = "idle"
    /\ hybridPos' = "custom.fetch"
    /\ requestBody' = [inputType |-> in]
    /\ customCalls' = customCalls + 1
    /\ UNCHANGED <<geminiApiKey, customError, hybridResult, geminiCalls>>
    /\ UNCHANGED <<reqVars, liveVars, camVars, creditVars, docVars>>

\* fetch settles
customFetchSettles(resp) ==
    /\ hybridPos = "custom.fetch"
    /\ IF resp = "NetworkError"
       THEN hybridCatch("NetworkError")
       ELSE IF ~ResponseOk(resp)
       THEN hybridCatch(resp)              \* throw new Error(`API error: ...`)
       ELSE \* await response.json()
            /\ hybridPos' = "custom.json"
            /\ UNCHANGED <<customError, hybridResult, geminiCalls>>
    /\ UNCHANGED <<geminiApiKey, requestBody, customCalls>>
    /\ UNCHANGED <<reqVars, liveVars, camVars, creditVars, docVars>>

\* response.json() settles
customJsonSettles(data) ==
    /\ hybridPos = "custom.json"
    /\ IF ~data.parsed
       THEN hybridCatch("SyntaxError")
       ELSE /\ hybridPos' = "done"
            /\ hybridResult' = CustomTextOf(data.fields)
            /\ UNCHANGED <<customError, geminiCalls>>
    /\ UNCHANGED <<geminiApiKey, requestBody, customCalls>>
    /\ UNCHANGED <<reqVars, liveVars, camVars, creditVars, docVars>>

\* variant: when Gemini fails too, the error of the custom provider is thrown
geminiSettlesThrowsFirstError(outcome) ==
    /\ hybridPos = "gemini"
    /\ hybridPos' = "done"
    /\ hybridResult' = IF outcome.kind = "text" THEN outcome ELSE customError
    /\ UNCHANGED <<geminiApiKey, requestBody, customError, customCalls, geminiCalls>>
    /\ UNCHANGED <<reqVars, liveVars, camVars, creditVars, docVars>>

\* geminiProvider.translate settles: `return await` hands on its outcome
geminiSettles(outcome) ==
    /\ hybridPos = "gemini"
    /\ hybridPos' = "done"
    /\ hybridResult' = outcome
    /\ UNCHANGED <<geminiApiKey, requestBody, customError, customCalls, geminiCalls>>
    /\ UNCHANGED <<reqVars, liveVars, camVars, creditVars, docVars>>

\* the fields after createHybridProvider(config), no request made
HybridInit ==
    /\ hybridPos = "idle"
    /\ requestBody = [inputType |-> "none"]
    /\ customError = NoResult
    /\ hybridResult = NoResult
    /\ customCalls = 0
    /\ geminiCalls = 0

-----------------------------------------------------------------------------
(* The credit service (CreditService) *)

\* this.GUEST_INITIAL_CREDITS
GUEST_INITIAL_CREDITS == 10

\* a value that is not there: getItem returns null, the document does not exist
Absent == [stored |-> FALSE, credits |-> 0]

\* a balance that is stored
Stored(n) == [stored |-> TRUE, credits |-> n]

\* the calls of useCredit() of one behaviour
CallIds == 1..MaxCreditCalls

\* a call of useCredit() that was not made yet
NoCall == [pos |-> "idle", currentCredits |-> 0, outcome |-> "none",
           remainingCredits |-> 0]

\* return { success: false, ... }
Failure(currentCredits) ==
    [pos |-> "done", currentCredits |-> currentCredits, outcome |-> "failure",
     remainingCredits |-> 0]

\* return { success: true, remainingCredits: currentCredits - 1 }
Success(currentCredits) ==
    [pos |-> "done", currentCredits |-> currentCredits, outcome |-> "success",
     remainingCredits |-> currentCredits - 1]

\* getGuestCredits(): what it returns; a first-time guest is given the free credits
getGuestCredits ==
    IF ~guestCredits.stored THEN GUEST_INITIAL_CREDITS ELSE guestCredits.credits

\* variant: a guest's credit is taken without a look at the balance
useGuestCreditUnchecked(c) ==
    LET currentCredits == getGuestCredits
    IN  /\ guestCredits' = Stored(currentCredits - 1)
        /\ useCalls' = [useCalls EXCEPT ![c] = Success(currentCredits)]
        /\ successes' = successes + 1

\* useGuestCredit() of call c: synchronous, the whole of it
useGuestCredit(c) ==
    LET currentCredits == getGuestCredits
    IN  IF currentCredits <= 0
        THEN /\ useCalls' = [useCalls EXCEPT ![c] = Failure(currentCredits)]
             /\ guestCredits' = Stored(currentCredits)     \* as it was
             /\ UNCHANGED successes
        ELSE /\ guestCredits' = Stored(currentCredits - 1) \* setGuestCredits(newCredits)
             /\ useCalls' = [useCalls EXCEPT ![c] = Success(currentCredits)]
             /\ successes' = successes + 1

\* useCredit() is called: a guest is served at once, a user's call awaits getDoc
useCredit(c) ==
    /\ useCalls[c].pos = "idle"
    /\ IF ~user
       THEN /\ useGuestCredit(c)
            /\ UNCHANGED <<userCredits, cachedCredits>>
       ELSE /\ useCalls' = [useCalls EXCEPT ![c].pos = "getDoc"]
            /\ UNCHANGED <<guestCredits, userCredits, cachedCredits, successes>>
    /\ UNCHANGED <<user, openingBalance>>
    /\ UNCHANGED <<reqVars, liveVars, camVars, hybridVars, docVars>>

\* getDoc of call c settles: the balance is read, the call goes on or returns
getDocSettles(c, ok) ==
    /\ useCalls[c].pos = "getDoc"
    /\ IF ~ok \/ ~userCredits.stored
       THEN \* catch, or `User profile not found`
            useCalls' = [useCalls EXCEPT ![c] = Failure(0)]
       ELSE IF userCredits.credits <= 0
       THEN useCalls' = [useCalls EXCEPT ![c] = Failure(userCredits.credits)]
       ELSE \* await updateDoc(docRef, { credits: currentCredits - 1 })
            useCalls' = [useCalls EXCEPT ![c] = [pos |-> "updateDoc",
                                                 currentCredits |-> userCredits.credits,
                                                 outcome |-> "none",
                                                 remainingCredits |-> 0]]
    /\ UNCHANGED <<user, guestCredits, userCredits, cachedCredits, openingBalance,
                   successes>>
    /\ UNCHANGED <<reqVars, liveVars, camVars, hybridVars, docVars>>

\* updateDoc of call c settles: the write is done, or it failed
updateDocSettles(c, ok) ==
    /\ useCalls[c].pos = "updateDoc"
    /\ IF ok
       THEN /\ userCredits' = Stored(useCalls[c].currentCredits - 1)
            /\ cachedCredits' = Stored(useCalls[c].currentCredits - 1)
            /\ useCalls' = [useCalls EXCEPT ![c] = Success(useCalls[c].currentCredits)]
            /\ successes' = successes + 1
       ELSE /\ useCalls' = [useCalls EXCEPT ![c] = Failure(useCalls[c].currentCredits)]
            /\ UNCHANGED <<userCredits, cachedCredits, successes>>
    /\ UNCHANGED <<user, guestCredits, openingBalance>>
    /\ UNCHANGED <<reqVars, liveVars, camVars, hybridVars, docVars>>

\* a guest who never used the app
CreditInit ==
    /\ user = FALSE
    /\ guestCredits = Absent
    /\ userCredits = Absent
    /\ cachedCredits = Absent
    /\ useCalls = [c \in CallIds |-> NoCall]
    /\ openingBalance = GUEST_INITIAL_CREDITS
    /\ successes = 0

-----------------------------------------------------------------------------
(* The open documents (DocumentManager) *)

\* the type argument of addDocument
DocTypes == {"pdf", "image"}

\* Array.from(this.documents.keys())
Keys(docs) == [i \in 1..Len(docs) |-> docs[i].id]

\* this.documents.has(id)
Has(docs, id) == \E i \in 1..Len(docs) : docs[i].id = id

\* this.documents.delete(id)
Delete(docs, id) == SelectSeq(docs, LAMBDA d : d.id # id)

\* switchTab(id) called on the documents docs
switchTabOn(docs, id) ==
    IF ~Has(docs, id)
    THEN UNCHANGED activeTabId                 \* return
    ELSE activeTabId' = id

\* addDocument(type, name, data)
addDocument(type) ==
    /\ nextId <= MaxDocs
    /\ LET id == nextId
           docs == Append(documents, [id |-> id, type |-> type])
       IN  /\ nextId' = nextId + 1              \* `doc-${this.nextId++}`
           /\ documents' = docs
           /\ switchTabOn(docs, id)
    /\ lastOp' = "add"
    /\ UNCHANGED removedIds
    /\ UNCHANGED <<reqVars, liveVars, camVars, hybridVars, creditVars>>

\* variant: after the active tab is removed the oldest document becomes active
removeDocumentSwitchesToFirst(id) ==
    /\ IF ~Has(documents, id)
       THEN /\ lastOp' = "none"
            /\ UNCHANGED <<documents, activeTabId, removedIds>>
       ELSE LET docs == Delete(documents, id)
                remaining == Keys(docs)
            IN  /\ documents' = docs
                /\ removedIds' = removedIds \cup {id}
                /\ IF activeTabId = id
                   THEN /\ lastOp' = "removeActive"
                        /\ IF Len(remaining) > 0
                           THEN switchTabOn(docs, remaining[1])
                           ELSE activeTabId' = 0
                   ELSE /\ lastOp' = "remove"
                        /\ UNCHANGED activeTabId
    /\ UNCHANGED nextId
    /\ UNCHANGED <<reqVars, liveVars, camVars, hybridVars, creditVars>>

\* removeDocument(id)
removeDocument(id) ==
    /\ IF ~Has(documents, id)
       THEN \* return
            /\ lastOp' = "none"
            /\ UNCHANGED <<documents, activeTabId, removedIds>>
       ELSE LET docs == Delete(documents, id)
                remaining == Keys(docs)
            IN  /\ documents' = docs
                /\ removedIds' = removedIds \cup {id}
                /\ IF activeTabId = id
                   THEN /\ lastOp' = "removeActive"
                        /\ IF Len(remaining) > 0
                           THEN switchTabOn(docs, remaining[Len(remaining)])
                           ELSE activeTabId' = 0            \* null
                   ELSE /\ lastOp' = "remove"
                        /\ UNCHANGED activeTabId
    /\ UNCHANGED nextId
    /\ UNCHANGED <<reqVars, liveVars, camVars, hybridVars, creditVars>>

\* switchTab(id)
switchTab(id) ==
    /\ switchTabOn(documents, id)
    /\ lastOp' = IF Has(documents, id) THEN "switch" ELSE "none"
    /\ UNCHANGED <<documents, nextId, removedIds>>
    /\ UNCHANGED <<reqVars, liveVars, camVars, hybridVars, creditVars>>

\* the fields after `new DocumentManager()`
DocInit ==
    /\ documents = << >>
    /\ activeTabId = 0
    /\ nextId = 1
    /\ removedIds = {}
    /\ lastOp = "none"

\* the services the other specifications leave alone
SvcInit ==
    /\ geminiApiKey = TRUE
    /\ HybridInit
    /\ CreditInit
    /\ DocInit

-----------------------------------------------------------------------------
LiveInit ==
    /\ pdfLiveModeActive = FALSE
    /\ translationInProgress = FALSE
    /\ liveTranslateDebounceTimer = "null"
    /\ debouncePending = FALSE
    /\ pdfDoc = FALSE
    /\ selectionBox = FALSE
    /\ onMoveEnd = FALSE
    /\ cycles = 0
    /\ cyclesStarted = 0
    /\ stickyNote = "hidden"
    /\ translatedText = ""
    /\ debounceElapsed = 0
    /\ selectionDirty = FALSE
    /\ moveEnds = 0
    /\ burst = 0
    /\ credits = MaxCredits
    /\ manualPos = "none"
    /\ wordPairs = 0
    /\ manualCalls = 0
    /\ wpLast = [outcome |-> "none", invocations |-> 0]

\* the fields of a request that has not been made, whatever it will carry
ReqInit ==
    /\ genAI \in BOOLEAN
    /\ sink = NoDelivery
    /\ status = "idle"
    /\ result = NoResult
    /\ cur = 0
    /\ lastError = "none"
    /\ loop = [e \in Entries |-> NoLoop]
    /\ timer = [e \in Entries |-> NoTimer]
    /\ tried = << >>
    /\ invocations = [e \in Entries |-> 0]
    /\ waited = [e \in Entries |-> 0]
    /\ entryError = [e \in Entries |-> "none"]

\* pdfLiveTranslate: translate(visionPayload, lang, partial => ...)
Init ==
    /\ ReqInit
    /\ input = "image"
    /\ onStreamUpdate = TRUE
    /\ LiveInit
    /\ CameraInit
    /\ SvcInit

\* any caller: a text or an image, with or without a callback
InitStream ==
    /\ ReqInit
    /\ input \in {"text", "image"}
    /\ onStreamUpdate \in BOOLEAN
    /\ LiveInit
    /\ CameraInit
    /\ SvcInit

Next ==
    \/ translate
    \/ \E e \in Entries : generateContentResolves(e)
    \/ \E e \in Entries, cls \in ErrorClasses : generateContentRejects(e, cls)
    \/ \E e \in Entries : backoffTimerFires(e)
    \/ \E e \in Entries : timeoutTimerFires(e)
    \/ Tick

Spec == Init /\ [][Next]_vars

\* one transient and one fatal class stand for the rejections of a call
StreamErrorClasses == {"Unavailable", "Malformed"}

NextStream ==
    \/ translate
    \/ \E e \in Entries : generateContentResolves(e)
    \/ \E e \in Entries, cls \in StreamErrorClasses : generateContentRejects(e, cls)
    \/ \E e \in Entries : backoffTimerFires(e)
    \/ \E e \in Entries : timeoutTimerFires(e)
    \/ \E e \in Entries : streamChunk(e)
    \/ Tick

SpecStream == InitStream /\ [][NextStream]_vars

NextLive ==
    \/ loadPDF
    \/ \E crop \in Crops : togglePdfLiveMode(crop)
    \/ handleEnd
    \/ \E crop \in Crops : debounceTimerFires(crop)
    \/ \E outcome \in Outcomes : translateSettles(outcome)
    \/ resetApp
    \/ LiveTick
    \/ manualCaptureAndTranslate
    \/ \E ok \in BOOLEAN, crop \in Crops : useCreditSettles(ok, crop)
    \/ \E outcome \in Outcomes : manualTranslateSettles(outcome)
    \/ \E outcome \in WordPairOutcomes : wordPairsSettles(outcome)

SpecLive == Init /\ [][NextLive]_vars

NextCamera ==
    \/ start
    \/ \E ok \in BOOLEAN : getUserMediaSettles(ok)
    \/ \E ok \in BOOLEAN : playSettles(ok)
    \/ stop
    \/ initialTimerFires
    \/ intervalFires
    \/ translateNow
    \/ \E outcome \in Outcomes : cameraTranslateSettles(outcome)

SpecCamera == Init /\ [][NextCamera]_vars

\* a hybrid provider made with or without a Gemini key
InitHybrid ==
    /\ ReqInit
    /\ input = "image"
    /\ onStreamUpdate = TRUE
    /\ LiveInit
    /\ CameraInit
    /\ geminiApiKey \in BOOLEAN
    /\ genAI = geminiApiKey          \* new GeminiProvider(config.geminiApiKey)
    /\ HybridInit
    /\ CreditInit
    /\ DocInit

NextHybrid ==
    \/ \E in \in {"text", "image"} : hybridTranslate(in)
    \/ \E resp \in FetchOutcomes : customFetchSettles(resp)
    \/ \E data \in JsonOutcomes : customJsonSettles(data)
    \/ \E outcome \in GeminiOutcomes : geminiSettles(outcome)

SpecHybrid == InitHybrid /\ [][NextHybrid]_vars

\* a guest, new or with some balance, or a user with or without a document
InitCredits ==
    /\ ReqInit
    /\ genAI = TRUE
    /\ input = "image"
    /\ onStreamUpdate = TRUE
    /\ LiveInit
    /\ CameraInit
    /\ geminiApiKey = TRUE
    /\ HybridInit
    /\ user \in BOOLEAN
    /\ IF user
       THEN /\ guestCredits = Absent
            /\ userCredits \in {Absent} \cup {Stored(n) : n \in 0..MaxBalance}
       ELSE /\ guestCredits \in {Absent} \cup {Stored(n) : n \in 0..MaxBalance}
            /\ userCredits = Absent
    /\ cachedCredits = Absent
    /\ useCalls = [c \in CallIds |-> NoCall]
    /\ openingBalance = IF user
                        THEN userCredits.credits
                        ELSE getGuestCredits
    /\ successes = 0
    /\ DocInit

NextCredits ==
    \/ \E c \in CallIds : useCredit(c)
    \/ \E c \in CallIds, ok \in BOOLEAN : getDocSettles(c, ok)
    \/ \E c \in CallIds, ok \in BOOLEAN : updateDocSettles(c, ok)

SpecCredits == InitCredits /\ [][NextCredits]_vars

\* the ids a caller may pass: those given out so far, and one that was not
IdArgs == 1..(MaxDocs + 1)

NextDocs ==
    \/ \E type \in DocTypes : addDocument(type)
    \/ \E id \in IdArgs : removeDocument(id)
    \/ \E id \in IdArgs : switchTab(id)

SpecDocs == Init /\ [][NextDocs]_vars

-----------------------------------------------------------------------------
(* Properties of one translate() request *)

LastEntry == Len(Catalog)

\* the retry loop of entry e is still alive: a call is outstanding or it sleeps
LoopAlive(e) == loop[e].phase \in {"calling", "backoff"}

\* C1: when every catalog entry has failed, translate() has failed with one
\* error of kind TranslationFailed whose cause is the error the last entry's
\* retry loop threw; a failed translate() never carries a bare endpoint error.
C1_ExhaustionIsWrapped ==
    /\ (\A e \in Entries : entryError[e] # "none") =>
            /\ status = "done"
            /\ result.kind = "TranslationFailed"
    /\ (status = "done" /\ result.kind \notin {"text", "ConfigurationError"}) =>
            /\ result.kind = "TranslationFailed"
            /\ \A e \in Entries : entryError[e] # "none"
            /\ loop[LastEntry].phase = "thrown"
            /\ result.cause = loop[LastEntry].lastError

C1_Witness ==
    /\ status = "done"
    /\ result.kind = "TranslationFailed"
    /\ entryError[1] = TimeoutError
    /\ loop[LastEntry].phase = "thrown"

\* C2: when translate() returns the text of entry k, the orchestrator has
\* started exactly the entries 1..k, once each and in catalog order, the
\* entries before k all failed (with at most maxRetries backend calls each),
\* and no entry after k was ever invoked; if entry 1 failed and entry 2
\* succeeded within its deadline, the result is entry 2's text.
C2_FirstSuccessWins ==
    /\ (status = "done" /\ result.kind = "text") =>
            LET k == result.cause
            IN  /\ k \in Entries
                /\ tried = [i \in 1..k |-> i]
                /\ loop[k].phase = "returned"
                /\ \A e \in Entries : e < k =>
                        /\ entryError[e] # "none"
                        /\ invocations[e] \in 1..maxRetries
                /\ \A e \in Entries : e > k =>
                        /\ invocations[e] = 0
                        /\ loop[e] = NoLoop
    /\ (/\ status = "done"
        /\ entryError[1] # "none"
        /\ loop[2].phase = "returned"
        /\ entryError[2] = "none") =>
            /\ result = TextOf(2)
            /\ invocations[3] = 0

C2_Witness ==
    /\ status = "done"
    /\ result = TextOf(2)
    /\ entryError[1] = "Unavailable"
    /\ invocations[1] = maxRetries
    /\ invocations[3] = 0

\* C3: at most one backend call of the request is outstanding at any instant.
C3_OneOutstandingCall ==
    Cardinality({e \in Entries : loop[e].phase = "calling"}) <= 1

\* C4: at most one live cycle is awaiting translate() at any time, and
\* translationInProgress is true for as long as one is.
C4_SingleFlight ==
    /\ cycles <= 1
    /\ cycles > 0 => translationInProgress

\* C5: the orchestrator never awaits an entry with a timeout beyond its
\* deadline: while it awaits the entry the timer is armed and not overdue, and
\* when the timer fires with the race unsettled, exactly timeout ms after the
\* entry was started, the orchestrator starts the next entry in that very
\* step, leaving the slow retry loop as it is.
C5_AdvanceAtDeadline ==
    /\ [](\A e \in Entries : (Awaiting(e) /\ e # LastEntry) =>
                /\ timer[e].state = "armed"
                /\ timer[e].elapsed <= Catalog[e].timeout)
    /\ [][\A e \in Entries :
            (/\ Awaiting(e)
             /\ timer[e].state = "armed"
             /\ timer'[e].state = "fired") =>
                /\ timer[e].elapsed = Catalog[e].timeout
                /\ status' = "running"
                /\ cur' = e + 1
                /\ loop'[e + 1] = FirstAttempt
                /\ loop'[e] = loop[e]]_vars

C5_Witness ==
    /\ Awaiting(2)
    /\ entryError[1] = TimeoutError
    /\ loop[1].phase = "calling"
    /\ loop[1].attempt = 1
    /\ timer[2].elapsed > 0

\* C6: a retry loop calls the backend at most maxRetries (3) times; attempt
\* k+1 starts only after the loop has slept k*1000 ms since attempt k failed
\* (1000 ms before the 2nd, 1000+2000 ms before the 3rd); a loop whose every
\* attempt failed transiently has made exactly 3 calls, has slept at least
\* 1000+2000 ms, and the error it throws is the one the orchestrator records.
C6_BoundedRetryWithBackoff ==
    \A e \in Entries :
        /\ invocations[e] <= 3
        /\ invocations[e] = loop[e].attempt
        /\ loop[e].phase = "calling" =>
                waited[e] = 1000 * ((loop[e].attempt * (loop[e].attempt - 1)) \div 2)
        /\ (loop[e].phase = "thrown" /\ loop[e].lastError \in {"RateLimited", "Overloaded", "Unavailable"}) =>
                /\ invocations[e] = 3
                /\ waited[e] >= 1000 + 2000
                /\ entryError[e] \in {loop[e].lastError, TimeoutError}

C6_Witness ==
    /\ loop[1].phase = "thrown"
    /\ loop[1].lastError = "RateLimited"
    /\ entryError[1] = "RateLimited"
    /\ invocations[1] = 3

\* the backend call of loop e is rejected with an error of class cls in this step
Rejected(e, cls) ==
    /\ loop[e].phase = "calling"
    /\ loop'[e].phase \in {"backoff", "thrown"}
    /\ loop'[e].lastError = cls

\* the orchestrator leaves entry e in this step and does what follows it
Advances(e) ==
    IF e < LastEntry
    THEN /\ status' = "running"
         /\ cur' = e + 1
         /\ loop'[e + 1] = FirstAttempt
    ELSE /\ status' = "done"
         /\ result'.kind = "TranslationFailed"

\* C7: a Malformed (fatal) rejection ends the retry loop in the same step:
\* no backoff is started, the entry is never called again, and if the
\* orchestrator was awaiting the entry it goes on to the next entry (or fails
\* the request after the last one) in that step.
C7_FatalNotRetried ==
    /\ [][\A e \in Entries :
            Rejected(e, "Malformed") =>
                /\ loop'[e].phase = "thrown"
                /\ invocations'[e] = invocations[e]
                /\ Awaiting(e) => (entryError'[e] = "Malformed" /\ Advances(e))]_vars
    /\ [][\A e \in Entries :
            loop[e].phase = "thrown" =>
                /\ loop'[e] = loop[e]
                /\ invocations'[e] = invocations[e]
                /\ waited'[e] = waited[e]]_vars
    /\ [](\A e \in Entries :
            (loop[e].phase = "thrown" /\ loop[e].lastError = "Malformed" /\ loop[e].attempt = 1) =>
                /\ invocations[e] = 1
                /\ waited[e] = 0)

C7_Witness ==
    /\ loop[1].phase = "thrown"
    /\ loop[1].lastError = "Malformed"
    /\ invocations[1] = 1
    /\ entryError[1] = "Malformed"
    /\ loop[2].phase = "returned"

\* C8 as stated: RateLimited, Overloaded, Unavailable and Unknown rejections
\* are retried (the loop sleeps), only Malformed ones are thrown at once.
C8_UnknownIsTransient ==
    [][\A e \in Entries :
        /\ \A cls \in {"RateLimited", "Overloaded", "Unavailable", "Unknown"} :
                Rejected(e, cls) => loop'[e].phase = "backoff"
        /\ Rejected(e, "Malformed") => loop'[e].phase = "thrown"]_vars

\* C8 amended: RateLimited, Overloaded and Unavailable rejections (message
\* with 429 or 503) are retried after a backoff; Malformed and Unknown
\* rejections are thrown at once, without retry.
C8_Only429And503AreTransient ==
    [][\A e \in Entries :
        /\ \A cls \in {"RateLimited", "Overloaded", "Unavailable"} :
                Rejected(e, cls) => loop'[e].phase = "backoff"
        /\ \A cls \in {"Malformed", "Unknown"} :
                Rejected(e, cls) => loop'[e].phase = "thrown"]_vars

C8_Witness ==
    /\ loop[1].phase = "thrown"
    /\ loop[1].lastError = "Unknown"
    /\ invocations[1] = 1
    /\ loop[2].phase = "backoff"
    /\ loop[2].lastError = "Overloaded"

C10_NoTimeoutOnlyOnLast ==
    /\ \A e \in Entries : HasTimeout(e) <=> e # LastEntry
    /\ \A e \in Entries : loop[e].phase # "none" => (timer[e].state # "none" <=> e # LastEntry)
    /\ entryError[LastEntry] # TimeoutError
    /\ Awaiting(LastEntry) => LoopAlive(LastEntry)
    /\ (status = "done" /\ cur = LastEntry) => loop[LastEntry].phase \in {"returned", "thrown"}

C10_Witness ==
    /\ status = "done"
    /\ cur = LastEntry
    /\ loop[LastEntry].phase = "returned"
    /\ loop[LastEntry].attempt = 3
    /\ entryError[2] = TimeoutError

-----------------------------------------------------------------------------
(* Properties of the stream callback *)

\* C11: for an image the stream callback is never called, on no entry and on
\* no attempt, although a callback was passed: no text is accumulated and
\* the text arrives only as the value translate() returns; for a text with a
\* callback every text a streamed call has accumulated was handed to the
\* callback.
C11_ImageIsNeverStreamed ==
    /\ input = "image" =>
            /\ sink = NoDelivery
            /\ \A e \in Entries : loop[e].fullText = 0
    /\ (input = "text" /\ onStreamUpdate) =>
            \A e \in Entries : loop[e].fullText > 0 => sink # NoDelivery

C11_Witness ==
    /\ input = "image"
    /\ onStreamUpdate
    /\ status = "done"
    /\ result = TextOf(2)
    /\ entryError[1] = "Malformed"
    /\ invocations[2] = 2
    /\ sink = NoDelivery

\* a chunk of the streamed call of entry e arrives in this step
ChunkArrives(e) ==
    /\ loop[e].phase = "calling"
    /\ loop'[e].phase = "calling"
    /\ loop'[e].attempt = loop[e].attempt
    /\ loop'[e] # loop[e]

\* an attempt of the retry loop of entry e begins in this step
AttemptBegins(e) ==
    /\ loop'[e].phase = "calling"
    /\ loop[e].phase # "calling" \/ loop'[e].attempt # loop[e].attempt

\* C12: within one attempt every text handed to the callback extends the one
\* the attempt handed over before (its length never decreases), and the
\* accumulated text is empty again only when the attempt is over: a new
\* attempt (a retry, or the first attempt of the next entry) begins with the
\* empty text.
C12_PartialsGrowWithinAttempt ==
    [][\A e \in Entries :
          /\ ChunkArrives(e) =>
                /\ loop'[e].fullText >= loop[e].fullText
                /\ sink' = [entry |-> e, attempt |-> loop[e].attempt,
                            fullText |-> loop'[e].fullText]
          /\ loop'[e].fullText < loop[e].fullText =>
                /\ loop[e].phase = "calling"
                /\ loop'[e].phase \in {"backoff", "thrown"}
          /\ AttemptBegins(e) => loop'[e].fullText = 0
      ]_vars

C12_Witness ==
    /\ sink = [entry |-> 2, attempt |-> 2, fullText |-> MaxChunks]
    /\ loop[2].phase = "calling"
    /\ loop[2].fullText = MaxChunks
    /\ entryError[1] = "Unavailable"

\* C13: the callback is called only by the entry the orchestrator is awaiting:
\* after the orchestrator has gone on to another entry, or translate() has
\* settled, the call of an abandoned entry hands nothing to the callback.
C13_OnlyCurrentEntryDelivers ==
    [][sink' # sink => Awaiting(sink'.entry)]_vars

\* C14: translate() settles once, with the text of the entry the orchestrator
\* is awaiting at that moment or, wrapped, with the error caught for the last
\* entry; what the call of an abandoned entry yields later neither settles
\* translate() nor replaces what it settled with.
C14_LateOutcomeIsDiscarded ==
    [][/\ status = "done" => (status' = "done" /\ result' = result)
       /\ (status = "running" /\ status' = "done") =>
             /\ result'.kind = "text" =>
                   /\ result'.cause = cur
                   /\ loop'[cur].phase = "returned"
                   /\ entryError[cur] = "none"
             /\ result'.kind # "text" =>
                   /\ cur = LastEntry
                   /\ result' = Wrap(entryError'[cur])
       /\ \A e \in Entries :
             (LoopAlive(e) /\ loop'[e] # loop[e] /\ ~Awaiting(e)) =>
                 UNCHANGED <<status, result, cur, lastError, entryError>>
      ]_vars

C14_Witness ==
    /\ status = "done"
    /\ result = TextOf(2)
    /\ entryError[1] = TimeoutError
    /\ loop[1].phase = "returned"
    /\ loop[1].attempt = 2

-----------------------------------------------------------------------------
(* Properties of the live session *)

\* the onMoveEnd callback runs in this step
MoveEnd == moveEnds' = moveEnds + 1

\* the debounce timer fires in this step
DebounceFires ==
    /\ debouncePending
    /\ ~debouncePending'
    /\ moveEnds' = moveEnds
    /\ pdfLiveModeActive'

\* a translate() call of the session is outstanding
InFlight == cycles > 0

\* C15: in an active session with no translation in progress every
\* movement-end puts off the one pending debounce timer by DebounceMs and
\* starts nothing; a session that is active starts a translation only when
\* the timer fires, DebounceMs after the last movement-end, and that firing
\* runs pdfLiveTranslate once: it starts one translate() call, or none when
\* the selection gives no image.
C15_OneAttemptAfterQuietPeriod ==
    [][/\ (MoveEnd /\ ~translationInProgress) =>
             /\ debouncePending'
             /\ debounceElapsed' = 0
             /\ liveTranslateDebounceTimer' = "handle"
             /\ UNCHANGED <<cycles, cyclesStarted, stickyNote>>
       /\ (pdfLiveModeActive /\ cyclesStarted' # cyclesStarted) =>
             /\ debouncePending
             /\ debounceElapsed = DebounceMs
             /\ ~debouncePending'
             /\ cyclesStarted' = cyclesStarted + 1
       /\ (DebounceFires /\ ~translationInProgress /\ pdfDoc /\ selectionBox) =>
             \/ cyclesStarted' = cyclesStarted + 1 /\ cycles' = cycles + 1
             \/ /\ stickyNote' \in {"Move selection to translate", "No image captured"}
                /\ UNCHANGED <<cycles, cyclesStarted>>
      ]_vars

C15_Witness ==
    /\ pdfLiveModeActive
    /\ burst = MaxMoveEnds
    /\ moveEnds = MaxMoveEnds
    /\ ~debouncePending
    /\ cyclesStarted = 1
    /\ cycles = 1
    /\ translationInProgress

\* C16: a movement-end that came while a translation was in flight is not
\* lost: once that translation has resolved and the session is still active,
\* a translation of the selection as it is now is under way or scheduled.
\* Stated on the states where the session is at rest (nothing in flight):
\* there nothing but a pending debounce timer can start a translation, so a
\* moved selection that was never captured must have a timer pending.
C16_MovedSelectionIsTranslated ==
    (/\ pdfLiveModeActive
     /\ pdfDoc
     /\ selectionBox
     /\ onMoveEnd
     /\ selectionDirty
     /\ ~InFlight
     /\ ~translationInProgress) => debouncePending

\* C17: a movement-end that comes while a translate() call of the session is
\* in flight starts no translation and leaves no debounce timer pending.
C17_MoveEndInFlightIsDropped ==
    [][(MoveEnd /\ InFlight) =>
           /\ ~debouncePending'
           /\ UNCHANGED <<cycles, cyclesStarted>>
      ]_vars

-----------------------------------------------------------------------------
(* Properties of the camera session *)

\* translateNow() is called in this step
TriggerNow == triggers' = triggers + 1

\* C18: translateNow() called while a translation is in flight does nothing:
\* it makes no translate() call, leaves the outstanding one, the timers and
\* every field of the session as they are; called while the session is
\* active and idle it starts a translation at once, with no timer involved.
C18_TriggerNowWhileInFlightIsNoOp ==
    [][TriggerNow =>
          /\ isTranslating =>
                UNCHANGED <<startPos, stream, isActive, isTranslating, lastTranslation,
                            translationInterval, intervals, initialTimers, overlay,
                            starts, camCalls, camFailed, stopped>>
          /\ (isActive /\ ~isTranslating) =>
                /\ isTranslating'
                /\ camCalls' = camCalls + 1
                /\ overlay' = "Translating..."
                /\ UNCHANGED <<translationInterval, intervals, initialTimers,
                               isActive, lastTranslation>>
      ]_vars

C18_Witness ==
    /\ triggers = 2
    /\ triggered = "inFlight"
    /\ isActive
    /\ isTranslating
    /\ camCalls = 1
    /\ initialTimers = 1

\* C19: a translation that is in flight when stop() is called runs to its
\* end, but when it settles in the stopped session nothing of it is shown
\* or kept: the overlay and lastTranslation stay as stop() left them.
C19_ResultAfterStopIsDiscarded ==
    [][(stopped /\ ~isActive /\ isTranslating /\ ~isTranslating') =>
           UNCHANGED <<lastTranslation, overlay>>
      ]_vars

\* C20: after stop() has returned, however early after start(), no timer of
\* the session is pending and none is created until the next start().
C20_NoTimerAfterStop ==
    stopped => (initialTimers = 0 /\ intervals = 0 /\ translationInterval = "null")

\* a translate() call of the camera session rejects in this step
CameraCallFails == camFailed' = camFailed + 1

\* C21: when the translate() call of a cycle fails, the overlay shows the
\* error text in place of what it showed, nothing else happens to the
\* session: it is as active as before, isTranslating is cleared and its
\* timers stay, so that the interval is alive in every active session and a
\* manual trigger in an active idle session starts a new cycle, after a
\* failure as at any other time; only stop() makes an active session inactive.
C21_FailureIsRenderedAndScheduleGoesOn ==
    [][/\ CameraCallFails =>
             /\ overlay' = "Translation failed - retrying..."
             /\ ~isTranslating'
             /\ UNCHANGED <<isActive, lastTranslation, translationInterval,
                            intervals, initialTimers, stopped>>
       /\ isActive => (intervals >= 1 /\ translationInterval = "handle")
       /\ (TriggerNow /\ isActive /\ ~isTranslating) =>
             (isTranslating' /\ camCalls' = camCalls + 1)
       /\ (isActive /\ ~isActive') => stopped'
      ]_vars

C21_Witness ==
    /\ camFailed = 1
    /\ camCalls = 2
    /\ isActive
    /\ isTranslating
    /\ overlay = "Translating..."
    /\ starts = 1
    /\ ~stopped

-----------------------------------------------------------------------------
(* Properties of the credit check and of a skipped cycle *)

\* useCredit() calls that have succeeded
Reserved == MaxCredits - credits

\* C22: every translate() call the app makes, from the Translate button or
\* from a live cycle, comes after a useCredit() of its own that succeeded:
\* there are never more calls than credits used.
C22_EveryCallIsPaidFor ==
    cyclesStarted + manualCalls <= Reserved

\* the live session is switched on in this step
Activates == ~pdfLiveModeActive /\ pdfLiveModeActive'

\* C23: a live cycle (run at activation or by the debounce timer) that finds
\* the selection off the page is skipped: translate() is not called, the
\* sticky note shows the hint to move the selection and not the error text,
\* translationInProgress is false afterwards, and the session stays active
\* with its subscription.
C23_NullCropSkipsCycle ==
    [][((Activates \/ DebounceFires) /\ stickyNote' = "Move selection to translate") =>
           /\ UNCHANGED <<cycles, cyclesStarted, wordPairs>>
           /\ ~translationInProgress'
           /\ pdfLiveModeActive'
           /\ Activates => onMoveEnd'
           /\ DebounceFires => (~debouncePending' /\ UNCHANGED onMoveEnd)
      ]_vars

C23_Witness ==
    /\ stickyNote = "Move selection to translate"
    /\ pdfLiveModeActive
    /\ onMoveEnd
    /\ ~translationInProgress
    /\ cyclesStarted = 1
    /\ cycles = 0
    /\ moveEnds = 1
    /\ ~debouncePending
    /\ ~selectionDirty

\* C24: translateWithWordPairs goes through the catalog like translate(): it
\* gives up with a backend error only after every catalog entry was invoked.
C24_WordPairsUseTheCatalog ==
    wpLast.outcome \notin {"none", "returned"} => wpLast.invocations >= Len(Catalog)

-----------------------------------------------------------------------------
(* Further properties of one translate() request *)

\* C25: with no API key configured translate() fails at once with the
\* configuration error: it is never left waiting, no catalog entry is
\* started or invoked, no timer is set, nothing is retried and the stream
\* callback is never called.
C25_NoCredentialFailsAtOnce ==
    ~genAI =>
        /\ status \in {"idle", "done"}
        /\ status = "done" => result = ConfigurationError
        /\ tried = << >>
        /\ sink = NoDelivery
        /\ \A e \in Entries :
              /\ invocations[e] = 0
              /\ loop[e] = NoLoop
              /\ timer[e] = NoTimer
              /\ entryError[e] = "none"

C25_Witness ==
    /\ ~genAI
    /\ input = "text"
    /\ onStreamUpdate
    /\ status = "done"
    /\ result = ConfigurationError

-----------------------------------------------------------------------------
(* Activation of the camera session *)

\* the camera session becomes active in this step
CameraActivates == ~isActive /\ isActive'

-----------------------------------------------------------------------------
(* What the callback is given *)

\* onStreamUpdate(fullText): the arguments of the call that made delivery d;
\* the accumulated text is the only one
onStreamUpdateArguments(d) == [fullText |-> d.fullText]

\* C27: the first text an attempt hands to the callback (after a switch to
\* the next entry, or on any new attempt) is handed over together with a tag
\* that marks it as a reset.
C27_FirstPartialIsTaggedReset ==
    [][\A e \in Entries :
          (ChunkArrives(e) /\ loop[e].fullText = 0) =>
              "reset" \in DOMAIN onStreamUpdateArguments(sink')
      ]_vars

-----------------------------------------------------------------------------
(* Termination of a request *)

\* the backend call of the last entry settles, one way or the other
lastEntryCallSettles ==
    \/ generateContentResolves(LastEntry)
    \/ \E cls \in ErrorClasses : generateContentRejects(LastEntry, cls)

(***************************************************************************)
(* The request under the scheduling the code relies on: time passes, a     *)
(* timer that is due fires (setTimeout callbacks are run by the event      *)
(* loop), and a backend call of the last entry settles.  Nothing is        *)
(* assumed of the calls of the entries that have a timeout.                *)
(***************************************************************************)
SpecFair ==
    /\ Init
    /\ [][Next]_vars
    /\ WF_vars(Tick)
    /\ \A e \in Entries : WF_vars(timeoutTimerFires(e))
    /\ \A e \in Entries : WF_vars(backoffTimerFires(e))
    /\ WF_vars(lastEntryCallSettles)

\* C28: a request that has been started settles, with a text or an error,
\* although the calls of the entries that have a timeout may stay open
\* for ever.
C28_TranslateEventuallySettles == (status = "running") ~> (status = "done")

C28_Witness ==
    /\ status = "done"
    /\ tried = <<1, 2, 3>>
    /\ loop[1].phase = "calling"
    /\ loop[2].phase = "calling"
    /\ entryError[1] = TimeoutError
    /\ entryError[2] = TimeoutError

-----------------------------------------------------------------------------
(* The number of backend calls of a request *)

RECURSIVE SumTo(_, _)
\* f[1] + ... + f[n]
SumTo(f, n) == IF n = 0 THEN 0 ELSE f[n] + SumTo(f, n - 1)

\* the backend calls the request has caused so far, on all entries
TotalInvocations == SumTo(invocations, Len(Catalog))

\* C29: no entry is called more than maxRetries (3) times in one request,
\* the calls made by retry loops the orchestrator has abandoned included
\* (every call of an entry is one attempt of its one retry loop), so a
\* request causes at most 3 calls per catalog entry in all.
C29_CallsPerEntryBounded ==
    /\ \A e \in Entries :
          /\ invocations[e] <= maxRetries
          /\ invocations[e] = loop[e].attempt
    /\ TotalInvocations <= maxRetries * Len(Catalog)

C29_Witness ==
    /\ invocations = <<3, 3, 3>>
    /\ entryError[1] = TimeoutError
    /\ loop[1].phase = "calling"
    /\ status = "done"

-----------------------------------------------------------------------------
(* The backoff after the last attempt *)

\* the error classes _generateWithRetry answers with a backoff
TransientClasses == {cls \in ErrorClasses : IsRetryable(cls)}

\* C30: every transiently failed attempt is followed by its backoff of
\* attempt * 1000 ms, the last one too: a retry loop never throws a transient
\* error straight from a failed call; it leaves a backoff only when the full
\* attempt * 1000 ms have passed, to the next call while attempts are left and
\* to the throw after the third.  So a loop that throws a transient error has
\* made exactly 3 calls and slept 1000 + 2000 + 3000 ms, and the orchestrator
\* records that error only in the step that ends the 3000 ms backoff.
C30_BackoffFollowsFinalAttempt ==
    [][\A e \in Entries :
          /\ (loop[e].phase = "calling" /\ loop'[e].phase = "thrown") =>
                loop'[e].lastError \notin TransientClasses
          /\ (loop[e].phase = "calling" /\ loop'[e].phase = "backoff") =>
                /\ loop'[e].lastError \in TransientClasses
                /\ loop'[e].attempt = loop[e].attempt
                /\ loop'[e].slept = 0
          /\ (loop[e].phase = "backoff" /\ loop'[e].phase # "backoff") =>
                /\ loop[e].slept = loop[e].attempt * 1000
                /\ IF loop[e].attempt < 3
                   THEN /\ loop'[e].phase = "calling"
                        /\ loop'[e].attempt = loop[e].attempt + 1
                        /\ invocations'[e] = invocations[e] + 1
                   ELSE /\ loop'[e].phase = "thrown"
                        /\ loop'[e].lastError = loop[e].lastError
                        /\ invocations'[e] = invocations[e]
          /\ (loop'[e].phase = "thrown" /\ loop'[e].lastError \in TransientClasses) =>
                /\ invocations'[e] = 3
                /\ waited'[e] = 1000 + 2000 + 3000
          /\ (entryError[e] = "none" /\ entryError'[e] \in TransientClasses) =>
                /\ loop[e].phase = "backoff"
                /\ loop[e].attempt = 3
                /\ loop[e].slept = 3000
                /\ waited[e] = 1000 + 2000 + 3000
      ]_vars

C30_Witness ==
    /\ loop[2].phase = "thrown"
    /\ loop[2].lastError = "Overloaded"
    /\ entryError[2] = "Overloaded"
    /\ waited[2] = 6000
    /\ invocations[2] = 3
    /\ cur = 3

-----------------------------------------------------------------------------
(* The in-flight flag of the PDF live session *)

\* the texts pdfLiveTranslate shows when it has nothing to translate
SkipTexts == {"Move selection to translate", "No image captured"}

\* C31: every way a live cycle ends clears translationInProgress: the step in
\* which its translate() settles, with a text, with nothing or with an error,
\* and the step in which it finds no crop or no image data.  So the flag is
\* set only while a translate() call of the session is outstanding, and in an
\* active session with no call outstanding the firing of the debounce timer
\* is not turned away by the flag: it starts a call or shows a skip text.
C31_EveryExitClearsTheFlag ==
    [][/\ cycles' < cycles => ~translationInProgress'
       /\ ((Activates \/ DebounceFires) /\ stickyNote' \in SkipTexts) =>
             ~translationInProgress'
       /\ translationInProgress' => cycles' > 0
       /\ (DebounceFires /\ cycles = 0 /\ pdfDoc /\ selectionBox) =>
             \/ cyclesStarted' = cyclesStarted + 1 /\ translationInProgress'
             \/ stickyNote' \in SkipTexts /\ ~translationInProgress'
      ]_vars

C31_Witness ==
    /\ pdfLiveModeActive
    /\ stickyNote = "Error - try moving the box"
    /\ ~translationInProgress
    /\ cycles = 0
    /\ cyclesStarted = 2
    /\ moveEnds = 1

-----------------------------------------------------------------------------
(* A stopped camera session *)

\* C32: from stop() until the next start() the camera session starts no
\* translate() call: a timer that was pending, a timer that fires later and
\* the manual trigger all leave the number of calls as it is.
C32_NoCallAfterStop ==
    [][stopped => camCalls' = camCalls]_vars

-----------------------------------------------------------------------------
(* The manual translation and the live cycles on one selection box *)

\* C33: the translate() call of captureAndTranslate() and a translate() call
\* of a live cycle are never outstanding at the same time, so no two calls
\* write to the sticky note of the selection box concurrently.
C33_ManualAndLiveNeverOverlap ==
    ~(manualPos = "translate" /\ InFlight)

-----------------------------------------------------------------------------
(* The order of the two providers of the hybrid provider *)

\* C34: the hybrid translate() calls the custom provider first and once, and
\* the Gemini provider only after the custom call has thrown, and once.  A
\* request whose custom call returned settles with what the custom provider
\* returned and has made no Gemini call; a request whose custom call threw
\* settles with the outcome of the Gemini call: its text, or its error, never
\* the error of the custom provider.
C34_CustomFirstThenGemini ==
    /\ customCalls <= 1
    /\ geminiCalls <= 1
    /\ geminiCalls = 1 <=> customError # NoResult
    /\ geminiCalls = 1 => customCalls = 1
    /\ (hybridPos = "done" /\ customError = NoResult) =>
            /\ geminiCalls = 0
            /\ hybridResult.kind \in {"customText", "undefined"}
    /\ (hybridPos = "done" /\ customError # NoResult) =>
            /\ hybridResult \in GeminiOutcomes
            /\ hybridResult.kind # "CustomFailed"

C34_Witness ==
    /\ hybridPos = "done"
    /\ customError = CustomFailed("500")
    /\ geminiCalls = 1
    /\ hybridResult = Wrap("Unavailable")

-----------------------------------------------------------------------------
(* The balance of the credit service *)

\* the balance the service holds for whoever uses the app
Balance == IF user THEN userCredits.credits ELSE getGuestCredits

\* call c of useCredit() returns in this step
Returns(c) == useCalls[c].pos # "done" /\ useCalls'[c].pos = "done"

C36_EverySuccessTakesOneCredit ==
    user => Balance = openingBalance - successes

-----------------------------------------------------------------------------
(* The active tab of the DocumentManager *)

\* the ids of the open documents
OpenIds(docs) == {docs[i].id : i \in 1..Len(docs)}

\* C37: after every call of addDocument, removeDocument and switchTab
\* activeTabId is null exactly when no document is open, and otherwise it is
\* the id of an open document; the open documents have different ids, none
\* of them the id of a document that was removed, and the id given to a new
\* document was never given before; removing the active tab makes the last
\* added of the remaining documents active, removing another tab leaves the
\* active tab as it is.
C37_ActiveTabIsAnOpenDocument ==
    [][/\ activeTabId' = 0 <=> documents' = << >>
       /\ activeTabId' # 0 => activeTabId' \in OpenIds(documents')
       /\ Cardinality(OpenIds(documents')) = Len(documents')
       /\ OpenIds(documents') \cap removedIds' = {}
       /\ \A id \in OpenIds(documents') \cup removedIds' : id < nextId'
       /\ Len(documents') > Len(documents) =>
             /\ OpenIds(documents') \ OpenIds(documents) = {nextId}
             /\ nextId \notin OpenIds(documents) \cup removedIds
             /\ activeTabId' = nextId
       /\ (Len(documents') < Len(documents) /\ documents' # << >>) =>
             IF activeTabId \in OpenIds(documents')
             THEN UNCHANGED activeTabId
             ELSE /\ activeTabId' = documents'[Len(documents')].id
                  /\ \A id \in OpenIds(documents') : id <= activeTabId'
      ]_vars

C37_Witness ==
    /\ lastOp = "removeActive"
    /\ Len(documents) = 2
    /\ removedIds = {2}
    /\ activeTabId = 3
    /\ Keys(documents) = <<1, 3>>

====
